---- MODULE Spec2Model ----
(***************************************************************************)
(* A model of github.com/berquerant/circle: the pull iterator, the map,    *)
(* filter and aggregate executors, stream nodes and stream.connect, and    *)
(* the channel materializer with its producer and watcher goroutines.      *)
(*                                                                         *)
(* Values (interface{}) are rendered strings: a sequence of string tokens, *)
(* <<"1">> for the int 1, <<"(", "1", "+", "iv", ")">> for "(1+iv)".       *)
(* Errors are the words of their message: ErrEOI is <<"EOI">>, and         *)
(* fmt.Errorf("%s %w", nid, err) is <<nid>> \o err.  nil is <<>>.          *)
(***************************************************************************)
EXTENDS Integers, Sequences, FiniteSets, TLC

VARIABLES
    script,     \* the source generator: what its k-th call returns
    endless,    \* the generator starts its script over instead of ending
    chain,      \* the stages added, in order: executors or stream node factories
    st,         \* the mutable state of the iterators: calls made, isEOI flags
    conn,       \* Execute()/connect(): what it returned
    out         \* what each call of Next on the connected iterator returned

pvars == <<script, endless, chain, st, conn, out>>

VARIABLES
    ctxMode,    \* "background" for Channel(); for ChannelWithContext "cancellable",
                \* and "cancelled" once the caller has cancelled its context
    ctxDone,    \* ctx.Done() is closed (the derived context, cancelled by either side)
    isClosed,   \* iteratorChannel.isClosed
    cerr,       \* iteratorChannel.err
    cClosed,    \* close(s.c) happened
    ppc,        \* the producer goroutine's position in iterate
    pv,         \* the value the producer holds between Next and the send
    wpc,        \* the watcher goroutine's position
    cpc,        \* the consumer's position
    received,   \* what the consumer received from C(), in order
    drained     \* how many values the watcher took off the channel

cvars == <<ctxMode, ctxDone, isClosed, cerr, cClosed, ppc, pv, wpc, cpc, received,
           drained>>

VARIABLES
    consumer,   \* the function given to the terminal operation: whether it has
                \* the shape of a Consumer, and its error per element
    applied,    \* the elements the Consumer has been applied to, in order
    cret        \* the terminal operation: whether it returned, and its error

kvars == <<consumer, applied, cret>>

VARIABLES
    bnodes,     \* streamBuilder.nodes: the stages configured, in order
    runs        \* what each Execute or Consume of the builder connected

bvars == <<bnodes, runs>>

VARIABLES
    adapter,    \* the adapter Apply is called on: its kind and the user's function
    args,       \* the values Apply is handed
    ret         \* what Apply returned

avars == <<adapter, args, ret>>

vars == <<script, endless, chain, st, conn, out,
          ctxMode, ctxDone, isClosed, cerr, cClosed, ppc, pv, wpc, cpc, received,
          drained, consumer, applied, cret, bnodes, runs,
          adapter, args, ret>>

-----------------------------------------------------------------------------
(* Bounds of the model. *)

\* the longest generator script
MaxLen == 3
\* the number of Next calls made on the connected iterator
MaxPulls == 4
\* the longest chain of stream stages
MaxStages == 3
\* the consumer records at most this many received values
MaxRecv == 3

\* the most Execute and Consume calls on one StreamBuilder
MaxRuns == 2
\* the most parameters of a function of a tuple adapter, and the most
\* elements of a Tuple
MaxArity == 2

-----------------------------------------------------------------------------
(* Values, errors, results. *)

Nil == <<>>
ErrEOI == <<"EOI">>
ErrCannotCreateIterator == <<"cannot create iterator">>
ErrCannotCreateStream == <<"cannot create stream">>
ErrInvalidAggregateExecutor == <<"invalid aggregate executor">>
ErrApply == <<"apply error">>
ErrInvalidMapper == <<"invalid mapper">>
ErrInvalidFilter == <<"invalid filter">>
ErrInvalidAggregator == <<"invalid aggregator">>
ErrInvalidComparator == <<"invalid comparator">>
ErrInvalidConsumer == <<"invalid consumer">>
\* an error the source's generator returns: errors.New("ERROR")
ErrUser == <<"ERROR">>
\* an error a Mapper's or a Filter's function returns: errors.New("negative")
ErrNegative == <<"negative">>

\* the elements a source yields
Vals == {<<"1">>, <<"2">>}
\* the elements of the sources that are sorted
SortVals == Vals \cup {<<"3">>}

Ok(v) == [val |-> v, err |-> Nil]
Fail(e) == [val |-> Nil, err |-> e]
\* a function of the user's returning both a value and an error
Both(v, e) == [val |-> v, err |-> e]

\* what one call of a generator function may return
GenItems == {Ok(v) : v \in Vals} \cup {Fail(ErrEOI), Fail(ErrUser)}

\* every sequence over S of length at most n
SeqUpTo(S, n) == UNION {[1..k -> S] : k \in 0..n}

-----------------------------------------------------------------------------
(* The iterators.  Iterator k is the one created by stage k's Execute;     *)
(* iterator 0 is the source iterator, NewIterator(generator).              *)

RECURSIVE IteratorNext(_, _), GeneratorCall(_, _), OutNext(_, _)
RECURSIVE mapExecutorF(_, _), filterExecutorF(_, _)
RECURSIVE foldr(_, _, _), foldl(_, _, _)
RECURSIVE compareExecutorF(_, _), flatExecutorF(_, _)

\* the state of the iterators once the Apply of an adapter (a Mapper, a
\* Filter, an Aggregator, a Comparator, a Consumer) has been called
Called(s) == [s EXCEPT !.fcalled = TRUE]

\* the state of the iterators once stage k has applied its Aggregator to the
\* element x: flog keeps, for each application, the element, how many times
\* the source generator had been called, and whether the upstream iterator
\* of the stage had ended
AggregatorCalled(s, k, x) ==
    [s EXCEPT !.fcalled = TRUE,
              !.flog = Append(@, [x |-> x, pulls |-> s.gcalls,
                                  eoi |-> s.isEOI[conn.up[k]]])]

\* the source generator function: call k returns script[k], and EOI once
\* the script is over (as a slice source does); an endless one starts the
\* script over, gcalls being its position in it
SourceF(s) ==
    LET k == s.gcalls + 1
    IN  IF endless
        THEN [s |-> [s EXCEPT !.gcalls = k % Len(script)], r |-> script[k]]
        ELSE [s |-> [s EXCEPT !.gcalls = k],
              r |-> IF k <= Len(script) THEN script[k] ELSE Fail(ErrEOI)]

\* the function newArrayOrSliceIteratorFunc returns for the slice or array
\* script, reading one index too far: it increments before it reads
newArrayOrSliceIteratorFuncOffByOne(s) ==
    IF s.gcalls + 1 >= Len(script) THEN [s |-> s, r |-> Fail(ErrEOI)]
    ELSE [s |-> [s EXCEPT !.gcalls = @ + 1], r |-> Ok(script[s.gcalls + 2].val)]

\* the function newArrayOrSliceIteratorFunc returns for the slice or array
\* script, gcalls being its index i: the element at i and i++, or ErrEOI
\* when i >= xs.Len()
newArrayOrSliceIteratorFunc(s) ==
    IF s.gcalls >= Len(script) THEN [s |-> s, r |-> Fail(ErrEOI)]
    ELSE [s |-> [s EXCEPT !.gcalls = @ + 1], r |-> Ok(script[s.gcalls + 1].val)]

\* iterator.Next with the sticky flag never set
IteratorNextNotSticky(k, s) ==
    IF s.isEOI[k] THEN [s |-> s, r |-> Fail(ErrEOI)]
    ELSE LET c == GeneratorCall(k, s)
         IN  IF c.r.err # Nil THEN [s |-> c.s, r |-> Fail(c.r.err)]
             ELSE [s |-> c.s, r |-> Ok(c.r.val)]

\* iterator.Next setting the sticky flag on ErrEOI only
IteratorNextStickyOnEOI(k, s) ==
    IF s.isEOI[k] THEN [s |-> s, r |-> Fail(ErrEOI)]
    ELSE LET c == GeneratorCall(k, s)
         IN  IF c.r.err # Nil
             THEN [s |-> [c.s EXCEPT !.isEOI[k] = (c.r.err = ErrEOI)], r |-> Fail(c.r.err)]
             ELSE [s |-> c.s, r |-> Ok(c.r.val)]

\* iterator.Next
IteratorNext(k, s) ==
    IF s.isEOI[k] THEN [s |-> s, r |-> Fail(ErrEOI)]
    ELSE LET c == GeneratorCall(k, s)
         IN  IF c.r.err # Nil
             THEN [s |-> [c.s EXCEPT !.isEOI[k] = TRUE], r |-> Fail(c.r.err)]
             ELSE [s |-> c.s, r |-> Ok(c.r.val)]

\* StreamNodeIterator.Next putting the node id after the error
StreamNodeIteratorNextAppending(k, s) ==
    LET c == IteratorNext(k, s)
    IN  IF c.r.err = ErrEOI THEN [s |-> c.s, r |-> Fail(ErrEOI)]
        ELSE IF c.r.err # Nil THEN [s |-> c.s, r |-> Fail(c.r.err \o <<chain[k].nid>>)]
        ELSE [s |-> c.s, r |-> Ok(c.r.val)]

\* StreamNodeIterator.Next: tag every error but ErrEOI with the node id
StreamNodeIteratorNext(k, s) ==
    LET c == IteratorNext(k, s)
    IN  IF c.r.err = ErrEOI THEN [s |-> c.s, r |-> Fail(ErrEOI)]
        ELSE IF c.r.err # Nil THEN [s |-> c.s, r |-> Fail(<<chain[k].nid>> \o c.r.err)]
        ELSE [s |-> c.s, r |-> Ok(c.r.val)]

\* Next on the iterator that stage k hands to stage k+1 (or to the caller)
OutNext(k, s) ==
    IF k > 0 /\ chain[k].wrapped THEN StreamNodeIteratorNext(k, s)
    ELSE IteratorNext(k, s)

\* Mapper.Apply: the user's function on v
MapperApply(f, v) ==
    IF v \in DOMAIN f THEN f[v]
    ELSE Fail(ErrApply \o <<"reflect: Call using string as type int">>)

\* Filter.Apply: the user's function on v
FilterApply(f, v) ==
    IF v \in DOMAIN f THEN f[v]
    ELSE [ok |-> FALSE, err |-> ErrApply \o <<"reflect: Call using string as type int">>]

\* mapExecutor's generator returning the Mapper's error as a filter does
mapExecutorFSurfacing(k, s) ==
    LET c == OutNext(conn.up[k], s)
    IN  IF c.r.err # Nil THEN [s |-> c.s, r |-> Fail(c.r.err)]
        ELSE LET a == MapperApply(chain[k].mapper, c.r.val)
             IN  IF a.err # Nil THEN [s |-> c.s, r |-> Fail(a.err)]
                 ELSE [s |-> c.s, r |-> Ok(a.val)]

\* mapExecutor's generator ending the iteration at the element the Mapper
\* fails on
mapExecutorFEnding(k, s) ==
    LET c == OutNext(conn.up[k], s)
    IN  IF c.r.err # Nil THEN [s |-> c.s, r |-> Fail(c.r.err)]
        ELSE LET a == MapperApply(chain[k].mapper, c.r.val)
             IN  IF a.err # Nil THEN [s |-> Called(c.s), r |-> Fail(ErrEOI)]
                 ELSE [s |-> Called(c.s), r |-> Ok(a.val)]

\* the generator of mapExecutor.Execute
mapExecutorF(k, s) ==
    LET c == OutNext(conn.up[k], s)
    IN  IF c.r.err # Nil THEN [s |-> c.s, r |-> Fail(c.r.err)]
        ELSE LET a == MapperApply(chain[k].mapper, c.r.val)
             IN  IF a.err # Nil THEN mapExecutorF(k, Called(c.s))
                 ELSE [s |-> Called(c.s), r |-> Ok(a.val)]

\* filterExecutor's generator dropping the element as a map does
filterExecutorFDropping(k, s) ==
    LET c == OutNext(conn.up[k], s)
    IN  IF c.r.err # Nil THEN [s |-> c.s, r |-> Fail(c.r.err)]
        ELSE LET a == FilterApply(chain[k].filter, c.r.val)
             IN  IF a.err # Nil \/ ~a.ok THEN filterExecutorF(k, c.s)
                 ELSE [s |-> c.s, r |-> Ok(c.r.val)]

\* filterExecutor's generator reading one element ahead of the one it
\* yields
filterExecutorFAhead(k, s) ==
    LET c == OutNext(conn.up[k], s)
    IN  IF c.r.err # Nil THEN [s |-> c.s, r |-> Fail(c.r.err)]
        ELSE LET a == FilterApply(chain[k].filter, c.r.val)
             IN  IF a.err # Nil THEN [s |-> Called(c.s), r |-> Fail(a.err)]
                 ELSE IF ~a.ok THEN filterExecutorF(k, Called(c.s))
                 ELSE [s |-> OutNext(conn.up[k], Called(c.s)).s, r |-> Ok(c.r.val)]

\* the generator of filterExecutor.Execute
filterExecutorF(k, s) ==
    LET c == OutNext(conn.up[k], s)
    IN  IF c.r.err # Nil THEN [s |-> c.s, r |-> Fail(c.r.err)]
        ELSE LET a == FilterApply(chain[k].filter, c.r.val)
             IN  IF a.err # Nil THEN [s |-> Called(c.s), r |-> Fail(a.err)]
                 ELSE IF ~a.ok THEN filterExecutorF(k, Called(c.s))
                 ELSE [s |-> Called(c.s), r |-> Ok(c.r.val)]

\* whether the arguments have the types of the aggregating function's
\* parameters: func(int, string) string for Right, func(string, int) string
\* for Left, func(interface{}, interface{}) interface{} for Perfect
AggregatorTypesOk(a, x, y) ==
    CASE a.t = "Right" -> x \in Vals /\ y \notin Vals
      [] a.t = "Left" -> x \notin Vals /\ y \in Vals
      [] OTHER -> TRUE

\* Aggregator.Apply: the user's function, fmt.Sprintf("(%v+%v)", x, y), which
\* returns an error when handed one of the values it rejects
AggregatorApply(a, x, y) ==
    IF ~AggregatorTypesOk(a, x, y)
    THEN Fail(ErrApply \o <<"reflect: Call using string as type int">>)
    ELSE IF x \in a.failOn \/ y \in a.failOn THEN Fail(ErrUser)
    ELSE Ok(<<"(">> \o x \o <<"+">> \o y \o <<")">>)

\* foldr handing the accumulator to the Aggregator first
foldrSwapped(k, s, acc) ==
    LET c == OutNext(conn.up[k], s)
    IN  IF c.r.err = ErrEOI THEN [s |-> c.s, r |-> Ok(acc)]
        ELSE IF c.r.err # Nil THEN [s |-> c.s, r |-> Fail(c.r.err)]
        ELSE LET d == foldr(k, c.s, acc)
             IN  IF d.r.err # Nil THEN [s |-> d.s, r |-> Fail(d.r.err)]
                 ELSE [s |-> d.s, r |-> AggregatorApply(chain[k].agg, d.r.val, c.r.val)]

\* foldr taking an upstream error for the end of the upstream
foldrPartial(k, s, acc) ==
    LET c == OutNext(conn.up[k], s)
    IN  IF c.r.err # Nil THEN [s |-> c.s, r |-> Ok(acc)]
        ELSE LET d == foldr(k, c.s, acc)
             IN  IF d.r.err # Nil THEN [s |-> d.s, r |-> Fail(d.r.err)]
                 ELSE [s |-> d.s, r |-> AggregatorApply(chain[k].agg, c.r.val, d.r.val)]

\* foldr applying the Aggregator to each element as it reads it, before it
\* folds the rest
foldrAsRead(k, s, acc) ==
    LET c == OutNext(conn.up[k], s)
    IN  IF c.r.err = ErrEOI THEN [s |-> c.s, r |-> Ok(acc)]
        ELSE IF c.r.err # Nil THEN [s |-> c.s, r |-> Fail(c.r.err)]
        ELSE LET a == AggregatorApply(chain[k].agg, c.r.val, acc)
             IN  IF a.err # Nil
                 THEN [s |-> AggregatorCalled(c.s, k, c.r.val), r |-> Fail(a.err)]
                 ELSE foldr(k, AggregatorCalled(c.s, k, c.r.val), a.val)

\* aggregateExecutor.foldr
foldr(k, s, acc) ==
    LET c == OutNext(conn.up[k], s)
    IN  IF c.r.err = ErrEOI THEN [s |-> c.s, r |-> Ok(acc)]
        ELSE IF c.r.err # Nil THEN [s |-> c.s, r |-> Fail(c.r.err)]
        ELSE LET d == foldr(k, c.s, acc)
             IN  IF d.r.err # Nil THEN [s |-> d.s, r |-> Fail(d.r.err)]
                 ELSE [s |-> AggregatorCalled(d.s, k, c.r.val),
                       r |-> AggregatorApply(chain[k].agg, c.r.val, d.r.val)]

\* foldl going on with the initial accumulator instead of the new one
foldlForgetting(k, s, acc) ==
    LET c == OutNext(conn.up[k], s)
    IN  IF c.r.err = ErrEOI THEN [s |-> c.s, r |-> Ok(acc)]
        ELSE IF c.r.err # Nil THEN [s |-> c.s, r |-> Fail(c.r.err)]
        ELSE LET a == AggregatorApply(chain[k].agg, acc, c.r.val)
             IN  IF a.err # Nil THEN [s |-> c.s, r |-> Fail(a.err)]
                 ELSE foldl(k, c.s, acc)

\* aggregateExecutor.foldl
foldl(k, s, acc) ==
    LET c == OutNext(conn.up[k], s)
    IN  IF c.r.err = ErrEOI THEN [s |-> c.s, r |-> Ok(acc)]
        ELSE IF c.r.err # Nil THEN [s |-> c.s, r |-> Fail(c.r.err)]
        ELSE LET a == AggregatorApply(chain[k].agg, acc, c.r.val)
             IN  IF a.err # Nil
                 THEN [s |-> AggregatorCalled(c.s, k, c.r.val), r |-> Fail(a.err)]
                 ELSE foldl(k, AggregatorCalled(c.s, k, c.r.val), a.val)

\* isValidAggregateExecutorType taking any classified Aggregator for either
\* direction
isValidAggregateExecutorTypeAny(aet, at) ==
    aet \in {"R", "L"} /\ at \in {"Right", "Left", "Perfect"}

\* isValidAggregateExecutorType
isValidAggregateExecutorType(aet, at) ==
    CASE aet = "R" -> at \in {"Right", "Perfect"}
      [] aet = "L" -> at \in {"Left", "Perfect"}
      [] OTHER -> FALSE

\* executorType going by the type of the Aggregator whatever direction the
\* option asks for
executorTypeInferred(stage) ==
    CASE stage.agg.t = "Right" -> "R"
      [] stage.agg.t \in {"Left", "Perfect"} -> "L"
      [] OTHER -> "Unknown"

\* aggregateExecutor.executorType
executorType(stage) ==
    IF stage.aet # "Unknown" THEN stage.aet
    ELSE CASE stage.agg.t = "Right" -> "R"
           [] stage.agg.t \in {"Left", "Perfect"} -> "L"
           [] OTHER -> "Unknown"

\* the generator of aggregateExecutor.Execute: one fold, then EOI
aggregateExecutorF(k, s) ==
    IF s.aggEOI[k] THEN [s |-> s, r |-> Fail(ErrEOI)]
    ELSE LET s1 == [s EXCEPT !.aggEOI[k] = TRUE]
         IN  IF executorType(chain[k]) = "R" THEN foldr(k, s1, chain[k].iv)
             ELSE foldl(k, s1, chain[k].iv)

\* Comparator.Apply: the user's function is a strict less-than on the rank
\* it gives each element; an element of another type is a conversion error
\* and false
ComparatorApply(f, x, y) ==
    IF x \notin DOMAIN f \/ y \notin DOMAIN f
    THEN [ok |-> FALSE, err |-> ErrApply \o <<"reflect: Call using string as type int">>]
    ELSE [ok |-> f[x] < f[y], err |-> Nil]

\* x is less than y for the sort: an error of the Comparator counts as not
\* less
Less(f, x, y) == ComparatorApply(f, x, y).err = Nil /\ ComparatorApply(f, x, y).ok

\* the insertion putting x before the first element it is not greater than
RECURSIVE InsertBeforeEqual(_, _, _)
InsertBeforeEqual(f, x, sorted) ==
    IF sorted = <<>> THEN <<x>>
    ELSE IF ~Less(f, Head(sorted), x) THEN <<x>> \o sorted
    ELSE <<Head(sorted)>> \o InsertBeforeEqual(f, x, Tail(sorted))

\* the insertion giving up the element when a comparison of it fails
RECURSIVE InsertUnlessError(_, _, _)
InsertUnlessError(f, x, sorted) ==
    IF sorted = <<>> THEN <<x>>
    ELSE IF ComparatorApply(f, x, Head(sorted)).err # Nil THEN sorted
    ELSE IF Less(f, x, Head(sorted)) THEN <<x>> \o sorted
    ELSE <<Head(sorted)>> \o InsertUnlessError(f, x, Tail(sorted))

\* the stable insertion: x goes before the first element it is less than
RECURSIVE Insert(_, _, _)
Insert(f, x, sorted) ==
    IF sorted = <<>> THEN <<x>>
    ELSE IF Less(f, x, Head(sorted)) THEN <<x>> \o sorted
    ELSE <<Head(sorted)>> \o Insert(f, x, Tail(sorted))

\* the stable sort of xs by the Comparator f
RECURSIVE Sorted(_, _)
Sorted(f, xs) ==
    IF xs = <<>> THEN <<>>
    ELSE Insert(f, xs[Len(xs)], Sorted(f, SubSeq(xs, 1, Len(xs) - 1)))

\* the whole upstream of stage k read into acc: the elements, or the error
\* that is not EOI
RECURSIVE Materialize(_, _, _)
Materialize(k, s, acc) ==
    LET c == OutNext(conn.up[k], s)
    IN  IF c.r.err = ErrEOI THEN [s |-> c.s, r |-> Ok(acc)]
        ELSE IF c.r.err # Nil THEN [s |-> c.s, r |-> Fail(c.r.err)]
        ELSE Materialize(k, c.s, Append(acc, c.r.val))

\* the next element of the buffer of stage k, EOI when it is empty
Replay(k, s) ==
    IF s.buf[k] = <<>> THEN [s |-> s, r |-> Fail(ErrEOI)]
    ELSE [s |-> [s EXCEPT !.buf[k] = Tail(@)], r |-> Ok(Head(s.buf[k]))]

\* the generator of the sort stage: the first call reads the whole upstream
\* and sorts it, every call replays one element
compareExecutorF(k, s) ==
    IF s.loaded[k] THEN Replay(k, s)
    ELSE LET m == Materialize(k, s, <<>>)
         IN  IF m.r.err # Nil THEN [s |-> m.s, r |-> Fail(m.r.err)]
             ELSE Replay(k, [m.s EXCEPT !.loaded[k] = TRUE,
                                        !.buf[k] = Sorted(chain[k].cmp, m.r.val),
                                        !.fcalled = @ \/ Len(m.r.val) >= 2])

\* the elements of xs one after the other, each a value of its own
RECURSIVE SplitMembers(_, _, _, _)
SplitMembers(ts, depth, cur, acc) ==
    IF ts = <<>> THEN acc
    ELSE IF Head(ts) = "["
    THEN SplitMembers(Tail(ts), depth + 1, Append(cur, "["), acc)
    ELSE IF Head(ts) = "]"
    THEN IF depth = 1
         THEN SplitMembers(Tail(ts), 0, <<>>, Append(acc, Append(cur, "]")))
         ELSE SplitMembers(Tail(ts), depth - 1, Append(cur, "]"), acc)
    ELSE IF depth = 0
         THEN SplitMembers(Tail(ts), 0, <<>>, Append(acc, <<Head(ts)>>))
         ELSE SplitMembers(Tail(ts), depth, Append(cur, Head(ts)), acc)

\* the members of v flattened all the way down
MembersDeep(v) ==
    LET ts == SelectSeq(v, LAMBDA t : t \notin {"[", "]"})
    IN  [i \in 1..Len(ts) |-> <<ts[i]>>]

\* what one element gives when flattened: the members of a slice or array
\* ("[" ... "]"), in order, and the element itself when it is a scalar
Members(v) ==
    IF Len(v) >= 2 /\ v[1] = "[" THEN SplitMembers(SubSeq(v, 2, Len(v) - 1), 0, <<>>, <<>>)
    ELSE <<v>>

\* the generator of the flat stage: the members of the upstream elements one
\* at a time, an upstream element being read when the buffer is empty
flatExecutorF(k, s) ==
    IF s.buf[k] # <<>> THEN Replay(k, s)
    ELSE LET c == OutNext(conn.up[k], s)
         IN  IF c.r.err # Nil THEN [s |-> c.s, r |-> Fail(c.r.err)]
             ELSE IF Members(c.r.val) = <<>> THEN flatExecutorF(k, c.s)
             ELSE Replay(k, [c.s EXCEPT !.buf[k] = Members(c.r.val)])

\* newIteratorFunc taking the Iterator for a value like any other
\* (newOrphanIteratorFunc): it yields the Iterator itself, once
newOrphanIteratorFunc(k, s) ==
    IF s.loaded[k] THEN [s |-> s, r |-> Fail(ErrEOI)]
    ELSE [s |-> [s EXCEPT !.loaded[k] = TRUE], r |-> Ok(<<"Iterator">>)]

\* newIteratorFunc for an Iterator v: v.Next, the Next of the iterator
\* upstream of k
NextFunc(k, s) == OutNext(conn.up[k], s)

\* s.f() of iterator k
GeneratorCall(k, s) ==
    IF k = 0 THEN SourceF(s)
    ELSE CASE chain[k].kind = "map" -> mapExecutorF(k, s)
           [] chain[k].kind = "filter" -> filterExecutorF(k, s)
           [] chain[k].kind = "aggregate" -> aggregateExecutorF(k, s)
           [] chain[k].kind = "sort" -> compareExecutorF(k, s)
           [] chain[k].kind = "flat" -> flatExecutorF(k, s)
           [] chain[k].kind = "slice" -> newArrayOrSliceIteratorFunc(s)
           [] chain[k].kind = "iterator" -> NextFunc(k, s)

-----------------------------------------------------------------------------
(* Construction, Execute and Next. *)

\* the stages: every stage record has every field, the ones its kind does
\* not use at a fixed value
NoMapper == [v \in Vals |-> Ok(v)]
NoFilter == [v \in Vals |-> [ok |-> TRUE, err |-> Nil]]
NoAggregator == [t |-> "Unknown", failOn |-> {}]
NoComparator == [v \in SortVals |-> 0]

\* NewMapExecutor(f, it) / stream.Map(f, WithNodeID(nid))
MapStage(f, nid, wrapped) ==
    [kind |-> "map", nid |-> nid, wrapped |-> wrapped, mapper |-> f,
     filter |-> NoFilter, agg |-> NoAggregator, iv |-> Nil, aet |-> "Unknown",
     cmp |-> NoComparator]

\* NewFilterExecutor(f, it) / stream.Filter(f, WithNodeID(nid))
FilterStage(f, nid, wrapped) ==
    [kind |-> "filter", nid |-> nid, wrapped |-> wrapped, mapper |-> NoMapper,
     filter |-> f, agg |-> NoAggregator, iv |-> Nil, aet |-> "Unknown",
     cmp |-> NoComparator]

\* NewAggregateExecutor(f, it, iv, WithAggregateExecutorType(aet)) /
\* stream.Aggregate(f, iv, WithAggregateType(aet), WithNodeID(nid))
AggregateStage(a, iv, aet, nid, wrapped) ==
    [kind |-> "aggregate", nid |-> nid, wrapped |-> wrapped, mapper |-> NoMapper,
     filter |-> NoFilter, agg |-> a, iv |-> iv, aet |-> aet, cmp |-> NoComparator]

\* NewCompareExecutor(f, it) / stream.Sort(f, WithNodeID(nid))
SortStage(f, nid, wrapped) ==
    [kind |-> "sort", nid |-> nid, wrapped |-> wrapped, mapper |-> NoMapper,
     filter |-> NoFilter, agg |-> NoAggregator, iv |-> Nil, aet |-> "Unknown",
     cmp |-> f]

\* NewFlatExecutor(it) / stream.Flat(WithNodeID(nid))
FlatStage(nid, wrapped) ==
    [kind |-> "flat", nid |-> nid, wrapped |-> wrapped, mapper |-> NoMapper,
     filter |-> NoFilter, agg |-> NoAggregator, iv |-> Nil, aet |-> "Unknown",
     cmp |-> NoComparator]

\* NewIterator(v) for a slice or an array v (the script): a source, which
\* reads no iterator
SliceStage ==
    [kind |-> "slice", nid |-> "", wrapped |-> FALSE, mapper |-> NoMapper,
     filter |-> NoFilter, agg |-> NoAggregator, iv |-> Nil, aet |-> "Unknown",
     cmp |-> NoComparator]

\* NewIterator(it) for an Iterator it: newIterator(it.Next)
IteratorStage ==
    [kind |-> "iterator", nid |-> "", wrapped |-> FALSE, mapper |-> NoMapper,
     filter |-> NoFilter, agg |-> NoAggregator, iv |-> Nil, aet |-> "Unknown",
     cmp |-> NoComparator]

\* the iterator state after construction: nothing called, nothing exhausted
InitSt(n) ==
    [gcalls |-> 0, isEOI |-> [k \in 0..n |-> FALSE], aggEOI |-> [k \in 1..n |-> FALSE],
     loaded |-> [k \in 1..n |-> FALSE], buf |-> [k \in 1..n |-> <<>>],
     fcalled |-> FALSE, flog |-> <<>>]

\* no iterator: the nil a failed Execute returns
NilIt == -1

\* the constructor of the executor has not been called yet
NotConstructed ==
    [made |-> "no", done |-> FALSE, ok |-> FALSE, err |-> Nil, it |-> NilIt,
     invoked |-> <<>>, up |-> [k \in 1..Len(chain) |-> k - 1]]
\* the executors are constructed, each over the iterator of the stage before
\* it (up), and Execute has not been called
NotConnected ==
    [made |-> "yes", done |-> FALSE, ok |-> FALSE, err |-> Nil, it |-> NilIt,
     invoked |-> <<>>, up |-> [k \in 1..Len(chain) |-> k - 1]]
\* a stream is constructed: no factory has made its executor yet
NotConnectedStream ==
    [made |-> "yes", done |-> FALSE, ok |-> FALSE, err |-> Nil, it |-> NilIt,
     invoked |-> <<>>, up |-> [k \in 1..Len(chain) |-> NilIt]]
\* the iterator of the last stage is in the caller's hands
Connected ==
    [made |-> "yes", done |-> TRUE, ok |-> TRUE, err |-> Nil, it |-> Len(chain),
     invoked |-> <<>>, up |-> [k \in 1..Len(chain) |-> k - 1]]

\* the channel materializer is not in use
ChannelIdle ==
    /\ ctxMode = "none" /\ ctxDone = FALSE /\ isClosed = FALSE /\ cerr = Nil
    /\ cClosed = FALSE /\ ppc = "idle" /\ pv = Nil /\ wpc = "idle" /\ cpc = "idle"
    /\ received = <<>> /\ drained = 0

\* no terminal operation is in use
NoConsumer == [valid |-> TRUE, f |-> [v \in Vals |-> Nil]]
NotReturned == [done |-> FALSE, err |-> Nil]
ConsumeIdle == consumer = NoConsumer /\ applied = <<>> /\ cret = NotReturned

\* no StreamBuilder is in use
BuilderIdle == bnodes = <<>> /\ runs = <<>>

\* no adapter is being applied
NoAdapter == [kind |-> "none", params |-> <<>>, out |-> "ok", r0 |-> "zero"]
NotApplied ==
    [done |-> FALSE, val |-> [k |-> "nil", v |-> "", e |-> <<>>], err |-> Nil,
     invoked |-> FALSE, panicked |-> FALSE]
ApplyIdle == adapter = NoAdapter /\ args = <<>> /\ ret = NotApplied

\* NewAggregateExecutor: the error it returns
NewAggregateExecutor(stage) ==
    IF stage.aet # "Unknown" /\ ~isValidAggregateExecutorType(stage.aet, stage.agg.t)
    THEN ErrInvalidAggregateExecutor
    ELSE Nil

\* Execute of an executor: the error it returns (NewIterator(f) cannot fail)
ExecutorExecute(stage) ==
    IF stage.kind = "aggregate" /\ executorType(stage) = "Unknown"
    THEN ErrInvalidAggregateExecutor
    ELSE Nil

\* the node a stream's factory makes: Err() of that node
NodeErr(stage) ==
    IF stage.kind = "aggregate" THEN NewAggregateExecutor(stage) ELSE Nil

\* streamNode.Execute and errStreamNode.Execute: the error returned
NodeExecute(stage) ==
    IF NodeErr(stage) # Nil THEN ErrCannotCreateIterator ELSE ExecutorExecute(stage)

RECURSIVE connect(_, _, _)

\* stream.connect going on to the next factory after a failed node
connectNotStopping(k, it, c) ==
    IF k > Len(chain) THEN [c EXCEPT !.done = TRUE, !.ok = (c.err = Nil), !.it = it]
    ELSE LET c1 == [c EXCEPT !.invoked = Append(@, [factory |-> k, it |-> it]),
                             !.up[k] = it]
         IN  IF NodeErr(chain[k]) # Nil
             THEN connect(k + 1, it,
                     [c1 EXCEPT !.err = ErrCannotCreateStream \o <<chain[k].nid>>
                                            \o NodeErr(chain[k])])
             ELSE IF NodeExecute(chain[k]) # Nil
             THEN connect(k + 1, it,
                     [c1 EXCEPT !.err = ErrCannotCreateStream \o <<chain[k].nid>>
                                            \o NodeExecute(chain[k])])
             ELSE connect(k + 1, k, c1)

\* stream.connect from factory k on, it being the iterator made so far
connect(k, it, c) ==
    IF k > Len(chain) THEN [c EXCEPT !.done = TRUE, !.ok = TRUE, !.it = it]
    ELSE LET c1 == [c EXCEPT !.invoked = Append(@, [factory |-> k, it |-> it]),
                             !.up[k] = it]
         IN  IF NodeErr(chain[k]) # Nil
             THEN [c1 EXCEPT !.done = TRUE, !.ok = FALSE, !.it = NilIt,
                             !.err = ErrCannotCreateStream \o <<chain[k].nid>>
                                         \o NodeErr(chain[k])]
             ELSE IF NodeExecute(chain[k]) # Nil
             THEN [c1 EXCEPT !.done = TRUE, !.ok = FALSE, !.it = NilIt,
                             !.err = ErrCannotCreateStream \o <<chain[k].nid>>
                                         \o NodeExecute(chain[k])]
             ELSE connect(k + 1, k, c1)

\* NewAggregateExecutor(f, it, iv, opt...): the executor, or nil and the
\* error
NewExecutor ==
    /\ conn.made = "no"
    /\ Len(chain) = 1 /\ ~chain[1].wrapped
    /\ conn' = IF NewAggregateExecutor(chain[1]) = Nil
               THEN [conn EXCEPT !.made = "yes"]
               ELSE [conn EXCEPT !.made = "failed", !.err = NewAggregateExecutor(chain[1])]
    /\ UNCHANGED <<script, endless, chain, st, out>>
    /\ UNCHANGED cvars
    /\ UNCHANGED kvars
    /\ UNCHANGED bvars
    /\ UNCHANGED avars

\* Execute() of a bare executor
Execute ==
    /\ conn.made = "yes"
    /\ ~conn.done
    /\ Len(chain) = 1 /\ ~chain[1].wrapped
    /\ conn' = IF ExecutorExecute(chain[1]) = Nil
               THEN [conn EXCEPT !.done = TRUE, !.ok = TRUE, !.it = 1]
               ELSE [conn EXCEPT !.done = TRUE, !.ok = FALSE,
                                 !.err = ExecutorExecute(chain[1])]
    /\ UNCHANGED <<script, endless, chain, st, out>>
    /\ UNCHANGED cvars
    /\ UNCHANGED kvars
    /\ UNCHANGED bvars
    /\ UNCHANGED avars

\* stream.Execute
StreamExecute ==
    /\ ~conn.done
    /\ \A k \in 1..Len(chain) : chain[k].wrapped
    /\ conn' = connect(1, 0, conn)
    /\ UNCHANGED <<script, endless, chain, st, out>>
    /\ UNCHANGED cvars
    /\ UNCHANGED kvars
    /\ UNCHANGED bvars
    /\ UNCHANGED avars

\* one call of Next on the connected iterator
CallNext ==
    /\ conn.done /\ conn.ok
    /\ Len(out) < MaxPulls
    /\ LET c == OutNext(conn.it, st)
       IN  /\ st' = c.s
           /\ out' = Append(out, c.r)
    /\ UNCHANGED <<script, endless, chain, conn>>
    /\ UNCHANGED cvars
    /\ UNCHANGED kvars
    /\ UNCHANGED bvars
    /\ UNCHANGED avars

\* Consumer.Apply: the error of the user's function, or of the conversion
\* of an element that is not of its parameter's type
ConsumerApply(c, v) ==
    IF v \notin DOMAIN c.f THEN ErrApply \o <<"reflect: Call using string as type int">>
    ELSE c.f[v]

RECURSIVE ConsumeLoop(_, _)

\* one turn of the loop of ConsumeExecute going on after an error of the
\* Consumer, c being what Next returned
ConsumeTurnIgnoring(c, ap) ==
    IF c.r.err = ErrEOI THEN [s |-> c.s, applied |-> ap, err |-> Nil]
    ELSE IF c.r.err # Nil THEN [s |-> c.s, applied |-> ap, err |-> c.r.err]
    ELSE ConsumeLoop(c.s, Append(ap, c.r.val))

\* the loop of ConsumeExecute going on after an error of the Consumer
ConsumeLoopIgnoring(s, ap) ==
    CHOOSE r \in {ConsumeTurnIgnoring(c, ap) : c \in {OutNext(conn.it, s)}} : TRUE

\* one turn of the loop of consumeExecutor.ConsumeExecute, c being what
\* Next returned: stop at an error, else apply the Consumer
ConsumeTurn(c, ap) ==
    IF c.r.err = ErrEOI THEN [s |-> c.s, applied |-> ap, err |-> Nil]
    ELSE IF c.r.err # Nil THEN [s |-> c.s, applied |-> ap, err |-> c.r.err]
    ELSE IF ConsumerApply(consumer, c.r.val) # Nil
         THEN [s |-> Called(c.s), applied |-> Append(ap, c.r.val),
               err |-> ConsumerApply(consumer, c.r.val)]
         ELSE ConsumeLoop(Called(c.s), Append(ap, c.r.val))

\* the loop of consumeExecutor.ConsumeExecute, ap being the elements the
\* Consumer was applied to so far; Next is called once a turn (c ranges
\* over the one result of the call)
ConsumeLoop(s, ap) ==
    CHOOSE r \in {ConsumeTurn(c, ap) : c \in {OutNext(conn.it, s)}} : TRUE

\* consumeExecutor.ConsumeExecute
ConsumeExecute ==
    /\ conn.done /\ conn.ok
    /\ ~cret.done
    /\ LET r == ConsumeLoop(st, applied)
       IN  /\ st' = r.s
           /\ applied' = r.applied
           /\ cret' = [done |-> TRUE, err |-> r.err]
    /\ UNCHANGED <<script, endless, chain, conn, out, consumer>>
    /\ UNCHANGED cvars
    /\ UNCHANGED bvars
    /\ UNCHANGED avars

-----------------------------------------------------------------------------
(* The StreamBuilder: NewStreamBuilder(it).Map(f)...Execute() / Consume(f). *)
(* Its stream is the one NewStream(it) made when the builder was made, and *)
(* chain is the nodes of that stream.                                      *)

\* what a method of the builder adds: the stage, and whether its function
\* has the shape of the adapter
BuilderNode(stage, valid) == [stage |-> stage, valid |-> valid]

\* NewMapper(f), NewFilter(f), NewAggregator(f), NewComparator(f): the error
AdapterErr(node) ==
    IF node.valid \/ node.stage.kind = "flat" THEN Nil
    ELSE CASE node.stage.kind = "map" -> ErrInvalidMapper
           [] node.stage.kind = "filter" -> ErrInvalidFilter
           [] node.stage.kind = "aggregate" -> ErrInvalidAggregator
           [] node.stage.kind = "sort" -> ErrInvalidComparator

\* NewConsumer(f): the error
NewConsumer(c) == IF c.valid THEN Nil ELSE ErrInvalidConsumer

\* streamBuilder.connect from factory i on, ch being the nodes of the
\* builder's stream: every factory adds its stage to that stream
RECURSIVE builderConnect(_, _)
builderConnect(i, ch) ==
    IF i > Len(bnodes) THEN [chain |-> ch, err |-> Nil]
    ELSE IF AdapterErr(bnodes[i]) # Nil
    THEN [chain |-> ch, err |-> ErrCannotCreateStream \o AdapterErr(bnodes[i])]
    ELSE builderConnect(i + 1, Append(ch, bnodes[i].stage))

\* the builder's connect failed: no iterator
FailedConn(e) ==
    [made |-> "yes", done |-> TRUE, ok |-> FALSE, err |-> e, it |-> NilIt,
     invoked |-> <<>>, up |-> [k \in 1..Len(chain) |-> NilIt]]

\* the iterators of a new connection of n stages over the same source
\* iterator
ReSt(s, n) ==
    [gcalls |-> s.gcalls, isEOI |-> [k \in 0..n |-> IF k = 0 THEN s.isEOI[0] ELSE FALSE],
     aggEOI |-> [k \in 1..n |-> FALSE], loaded |-> [k \in 1..n |-> FALSE],
     buf |-> [k \in 1..n |-> <<>>], fcalled |-> s.fcalled, flog |-> s.flog]

\* what a run of the builder leaves in runs
Run(op, c, ch) == [op |-> op, err |-> c.err, stages |-> IF c.ok THEN ch ELSE <<>>]

\* Consume of the builder has connected the pipeline and has not run
\* ConsumeExecute on it yet
Consuming ==
    /\ runs # <<>>
    /\ runs[Len(runs)].op = "Consume"
    /\ conn.ok
    /\ ~cret.done

\* streamBuilder.Execute pulling the first element of the pipeline it has
\* connected
BuilderExecuteEager ==
    /\ Len(runs) < MaxRuns
    /\ ~Consuming
    /\ UNCHANGED <<script, endless, bnodes>>
    /\ UNCHANGED kvars
    /\ UNCHANGED cvars
    /\ UNCHANGED avars
    /\ \E b \in {builderConnect(1, chain)} :
          /\ chain' = b.chain
          /\ conn' = IF b.err # Nil THEN FailedConn(b.err)'
                     ELSE connect(1, 0, NotConnectedStream)'
          /\ \E s0 \in {ReSt(st, Len(b.chain))} :
                st' = IF conn'.ok THEN (OutNext(conn.it, s0).s)' ELSE s0
          /\ out' = <<>>
          /\ runs' = Append(runs, Run("Execute", conn', chain'))

\* streamBuilder.Execute: connect, then Execute of the stream
BuilderExecute ==
    /\ Len(runs) < MaxRuns
    /\ ~Consuming
    /\ UNCHANGED <<script, endless, bnodes>>
    /\ UNCHANGED kvars
    /\ UNCHANGED cvars
    /\ UNCHANGED avars
    /\ \E b \in {builderConnect(1, chain)} :
          /\ chain' = b.chain
          /\ conn' = IF b.err # Nil THEN FailedConn(b.err)'
                     ELSE connect(1, 0, NotConnectedStream)'
          /\ st' = ReSt(st, Len(b.chain))
          /\ out' = <<>>
          /\ runs' = Append(runs, Run("Execute", conn', chain'))

\* streamBuilder.Consume making the Consumer after it has connected the
\* pipeline and pulled its first element
BuilderConsumeLate ==
    /\ Len(runs) < MaxRuns
    /\ ~Consuming
    /\ ~cret.done
    /\ UNCHANGED <<script, endless, bnodes, consumer, applied>>
    /\ UNCHANGED cvars
    /\ UNCHANGED avars
    /\ \E b \in {builderConnect(1, chain)} :
          /\ chain' = b.chain
          /\ conn' = IF b.err # Nil THEN FailedConn(b.err)'
                     ELSE connect(1, 0, NotConnectedStream)'
          /\ out' = <<>>
          /\ runs' = Append(runs, Run("Consume", conn', chain'))
          /\ \E s0 \in {ReSt(st, Len(b.chain))} :
                st' = IF conn'.ok /\ NewConsumer(consumer) # Nil
                      THEN (OutNext(conn.it, s0).s)' ELSE s0
          /\ cret' = IF ~conn'.ok THEN [done |-> TRUE, err |-> conn'.err]
                     ELSE IF NewConsumer(consumer) # Nil
                     THEN [done |-> TRUE, err |-> ErrCannotCreateStream \o NewConsumer(consumer)]
                     ELSE cret

\* streamBuilder.Consume up to the call of ConsumeExecute: NewConsumer,
\* connect, then connect of the stream. When the pipeline is connected,
\* ConsumeExecute is the one step that can follow (BuilderConsumeExecute).
BuilderConsume ==
    /\ Len(runs) < MaxRuns
    /\ ~Consuming
    /\ ~cret.done
    /\ UNCHANGED <<script, endless, bnodes, consumer, applied>>
    /\ UNCHANGED cvars
    /\ UNCHANGED avars
    /\ IF NewConsumer(consumer) # Nil
       THEN /\ cret' = [done |-> TRUE, err |-> ErrCannotCreateStream \o NewConsumer(consumer)]
            /\ UNCHANGED <<chain, conn, st, out, runs>>
       ELSE \E b \in {builderConnect(1, chain)} :
               /\ chain' = b.chain
               /\ conn' = IF b.err # Nil THEN FailedConn(b.err)'
                          ELSE connect(1, 0, NotConnectedStream)'
               /\ st' = ReSt(st, Len(b.chain))
               /\ out' = <<>>
               /\ runs' = Append(runs, Run("Consume", conn', chain'))
               /\ cret' = IF conn'.ok THEN cret ELSE [done |-> TRUE, err |-> conn'.err]

\* the rest of streamBuilder.Consume: ConsumeExecute on the pipeline it
\* has connected
BuilderConsumeExecute ==
    /\ Consuming
    /\ ConsumeExecute

-----------------------------------------------------------------------------
(* The iterator alone: NewIterator over a generator function. *)

IterInit ==
    /\ script \in SeqUpTo(GenItems \cup {Both(<<"1">>, ErrUser)}, MaxLen)
    /\ endless = FALSE
    /\ chain = <<>>
    /\ st = InitSt(0)
    /\ conn = Connected
    /\ out = <<>>
    /\ ChannelIdle
    /\ ConsumeIdle
    /\ BuilderIdle
    /\ ApplyIdle

IterStep == CallNext

SpecIter == IterInit /\ [][IterStep]_vars

\* the index of the first call of Next that returned an error, 0 when none did
FirstErr(o) ==
    IF \A i \in 1..Len(o) : o[i].err = Nil THEN 0
    ELSE CHOOSE i \in 1..Len(o) : o[i].err # Nil /\ \A j \in 1..(i - 1) : o[j].err = Nil

\* C1: once Next has returned an error (ErrEOI or any other), every later
\* Next returns ErrEOI with no value, and the generator function is not
\* called again: it was called once per Next up to and including the failing one.
C1_StickyTermination ==
    (chain = <<>> /\ FirstErr(out) > 0) =>
        /\ \A j \in (FirstErr(out) + 1)..Len(out) : out[j] = Fail(ErrEOI)
        /\ st.gcalls = FirstErr(out)

\* a non-EOI error was returned, then Next was called again although the
\* generator has a value to give
C1_Witness ==
    /\ chain = <<>>
    /\ Len(out) >= 3
    /\ out[1].err = ErrUser
    /\ Len(script) >= 2 /\ script[2].err = Nil

-----------------------------------------------------------------------------
(* What the upstream iterator of a single executor yields: the values the  *)
(* generator returns before its first error, then that error, then EOI.    *)

\* the index of the first error in the script, Len + 1 when there is none
FirstFail(sc) ==
    IF \A i \in 1..Len(sc) : sc[i].err = Nil THEN Len(sc) + 1
    ELSE CHOOSE i \in 1..Len(sc) : sc[i].err # Nil /\ \A j \in 1..(i - 1) : sc[j].err = Nil

UpstreamVals(sc) == [i \in 1..(FirstFail(sc) - 1) |-> sc[i].val]

UpstreamEnd(sc) == IF FirstFail(sc) <= Len(sc) THEN sc[FirstFail(sc)].err ELSE ErrEOI

\* results vs, then the error e, then EOI forever: the i-th of them
ThenEnd(vs, e, i) ==
    IF i <= Len(vs) THEN Ok(vs[i])
    ELSE IF i = Len(vs) + 1 THEN Fail(e)
    ELSE Fail(ErrEOI)

-----------------------------------------------------------------------------
(* The map executor: NewMapExecutor(f, it).Execute(). *)

\* what a Mapper's function may return for an element
MapOutcomes == {Ok(v) : v \in Vals} \cup {Fail(ErrNegative), Both(<<"1">>, ErrNegative)}

MapInit ==
    /\ script \in SeqUpTo(GenItems, MaxLen)
    /\ endless = FALSE
    /\ \E f \in [Vals -> MapOutcomes] : chain = <<MapStage(f, "", FALSE)>>
    /\ st = InitSt(1)
    /\ conn = NotConnected
    /\ out = <<>>
    /\ ChannelIdle
    /\ ConsumeIdle
    /\ BuilderIdle
    /\ ApplyIdle

ExecutorStep == Execute \/ CallNext

SpecMap == MapInit /\ [][ExecutorStep]_vars

\* f applied to the elements of xs on which it does not fail, in order
RECURSIVE Mapped(_, _)
Mapped(f, xs) ==
    IF xs = <<>> THEN <<>>
    ELSE (IF f[Head(xs)].err = Nil THEN <<f[Head(xs)].val>> ELSE <<>>)
         \o Mapped(f, Tail(xs))

\* C2: the map stage yields f of the upstream elements on which the Mapper
\* does not fail, in upstream order, then the upstream's EOI or error
\* unchanged; no error of the Mapper is ever returned by Next.
C2_MapOutput ==
    (Len(chain) = 1 /\ chain[1].kind = "map") =>
        /\ \A i \in 1..Len(out) :
              out[i] = ThenEnd(Mapped(chain[1].mapper, UpstreamVals(script)),
                               UpstreamEnd(script), i)
        /\ \A i \in 1..Len(out) : out[i].err # ErrNegative

\* the Mapper failed on the first element and mapped the second, which
\* Next returned, and the upstream's error came out unchanged after it
C2_Witness ==
    /\ Len(chain) = 1 /\ chain[1].kind = "map"
    /\ Len(script) = 3 /\ script[1].err = Nil /\ script[2].err = Nil
    /\ chain[1].mapper[script[1].val].err # Nil
    /\ chain[1].mapper[script[2].val].err = Nil
    /\ Len(out) = 2
    /\ out[1].err = Nil
    /\ out[2] = Fail(ErrUser)

-----------------------------------------------------------------------------
(* The filter executor: NewFilterExecutor(f, it).Execute(). *)

\* what a Filter's function may return for an element
FilterOutcomes ==
    {[ok |-> b, err |-> Nil] : b \in BOOLEAN}
        \cup {[ok |-> b, err |-> ErrNegative] : b \in BOOLEAN}

FilterInit ==
    /\ script \in SeqUpTo(GenItems, MaxLen)
    /\ endless = FALSE
    /\ \E f \in [Vals -> FilterOutcomes] : chain = <<FilterStage(f, "", FALSE)>>
    /\ st = InitSt(1)
    /\ conn = NotConnected
    /\ out = <<>>
    /\ ChannelIdle
    /\ ConsumeIdle
    /\ BuilderIdle
    /\ ApplyIdle

SpecFilter == FilterInit /\ [][ExecutorStep]_vars

\* the index in xs of the first element on which f returns an error,
\* Len + 1 when there is none
FirstFilterErr(f, xs) ==
    IF \A i \in 1..Len(xs) : f[xs[i]].err = Nil THEN Len(xs) + 1
    ELSE CHOOSE i \in 1..Len(xs) : f[xs[i]].err # Nil /\ \A j \in 1..(i - 1) : f[xs[j]].err = Nil

\* the elements of xs for which f returns true
Passing(f, xs) == SelectSeq(xs, LAMBDA x : f[x].ok)

\* C3: the filter stage skips the elements for which the Filter returns
\* false; at the first element on which the Filter returns an error, Next
\* returns that error after every element that passed before it, no later
\* upstream element is yielded and every later Next returns ErrEOI.
C3_FilterOutput ==
    (Len(chain) = 1 /\ chain[1].kind = "filter") =>
        LET f == chain[1].filter
            xs == UpstreamVals(script)
            n == FirstFilterErr(f, xs)
            before == Passing(f, SubSeq(xs, 1, n - 1))
        IN  \A i \in 1..Len(out) :
              out[i] = ThenEnd(before,
                               IF n <= Len(xs) THEN f[xs[n]].err ELSE UpstreamEnd(script),
                               i)

\* an element was skipped, one passed and was yielded, the Filter failed on
\* the next with more of the upstream unread, and Next was called again
C3_Witness ==
    /\ Len(chain) = 1 /\ chain[1].kind = "filter"
    /\ Len(script) = 3 /\ \A i \in 1..3 : script[i].err = Nil
    /\ chain[1].filter[script[1].val] = [ok |-> TRUE, err |-> Nil]
    /\ chain[1].filter[script[2].val].err = ErrNegative
    /\ Len(out) = 3
    /\ out[1] = Ok(script[1].val)
    /\ out[2] = Fail(ErrNegative)
    /\ out[3] = Fail(ErrEOI)

-----------------------------------------------------------------------------
(* A stream of map and filter stages: NewStream(it).Map(..).Filter(..)...  *)

\* the id given to the stage at position k: WithNodeID("N1"), ...
NodeID(k) == "N" \o ToString(k)

\* the error the Filter of stage k returns: fmt.Errorf("ERROR %d", k)
FilterErr(k) == <<"ERROR", ToString(k)>>

\* a Mapper that maps 1 to 2 and fails on 2
StreamMappers == {[v \in Vals |-> IF v = <<"2">> THEN Fail(ErrNegative) ELSE Ok(<<"2">>)]}

\* a Filter that passes 1 and fails on 2, and one that passes 2 only
StreamFilters(k) ==
    {[v \in Vals |-> IF v = <<"1">> THEN [ok |-> TRUE, err |-> Nil]
                                     ELSE [ok |-> FALSE, err |-> FilterErr(k)]],
     [v \in Vals |-> [ok |-> v = <<"2">>, err |-> Nil]]}

\* the stages Map or Filter can add at position k
StreamStages(k) ==
    {MapStage(f, NodeID(k), TRUE) : f \in StreamMappers}
        \cup {FilterStage(f, NodeID(k), TRUE) : f \in StreamFilters(k)}

\* the chains of n stages, stage k drawn from StreamStages(k)
RECURSIVE StreamChains(_)
StreamChains(n) ==
    IF n = 0 THEN {<<>>}
    ELSE {Append(c, stage) : c \in StreamChains(n - 1), stage \in StreamStages(n)}

StreamInit ==
    /\ script \in SeqUpTo({Ok(v) : v \in Vals} \cup {Fail(ErrUser)}, MaxLen)
    /\ endless = FALSE
    /\ \E n \in 0..MaxStages : chain \in StreamChains(n)
    /\ st = InitSt(Len(chain))
    /\ conn = NotConnectedStream
    /\ out = <<>>
    /\ ChannelIdle
    /\ ConsumeIdle
    /\ BuilderIdle
    /\ ApplyIdle

StreamStep == StreamExecute \/ CallNext

SpecStream == StreamInit /\ [][StreamStep]_vars

\* the ids of stages n, n - 1, ..., i, the most recent stage first
RECURSIVE Tags(_, _)
Tags(n, i) == IF n < i \/ n < 1 THEN <<>> ELSE <<chain[n].nid>> \o Tags(n - 1, i)

\* C4: an error read at the output of a connected chain of n stages is
\* ErrEOI, never tagged, or the cause of the stage i that raised it (the
\* source's error for i = 0, the Filter's of stage i otherwise) after the
\* ids of stages n, n - 1, ..., i and of no stage upstream of i.
C4_StageTags ==
    (conn.ok /\ \A k \in 1..Len(chain) : chain[k].wrapped /\ chain[k].kind \in {"map", "filter"}) =>
        \A j \in 1..Len(out) :
            \/ out[j].err = Nil
            \/ out[j].err = ErrEOI
            \/ out[j].err = Tags(Len(chain), 1) \o ErrUser
            \/ \E i \in 1..Len(chain) :
                  /\ chain[i].kind = "filter"
                  /\ out[j].err = Tags(Len(chain), i) \o FilterErr(i)

\* map(N1) -> failing filter(N2) -> map(N3) gave "N3 N2 ERROR 2"
C4_Witness ==
    /\ conn.ok /\ Len(chain) = 3
    /\ chain[1].kind = "map" /\ chain[2].kind = "filter" /\ chain[3].kind = "map"
    /\ \E j \in 1..Len(out) : out[j].err = <<"N3", "N2", "ERROR", "2">>

-----------------------------------------------------------------------------
(* stream.connect over map, filter and aggregate stages. *)

\* the Aggregators and the directions asked for: two that construct and
\* execute, one whose direction is refused by NewAggregateExecutor, and one
\* whose Type() is unknown, so that Execute fails
ConnectAggregates ==
    {[t |-> "Right", aet |-> "Unknown"], [t |-> "Perfect", aet |-> "R"],
     [t |-> "Right", aet |-> "L"], [t |-> "Unknown", aet |-> "Unknown"]}

ConnectStages(k) ==
    {MapStage(f, NodeID(k), TRUE) : f \in StreamMappers}
        \cup {FilterStage([v \in Vals |-> [ok |-> TRUE, err |-> Nil]], NodeID(k), TRUE)}
        \cup {AggregateStage([t |-> a.t, failOn |-> {}], <<"iv">>, a.aet, NodeID(k), TRUE) :
                 a \in ConnectAggregates}

RECURSIVE ConnectChains(_)
ConnectChains(n) ==
    IF n = 0 THEN {<<>>}
    ELSE {Append(c, stage) : c \in ConnectChains(n - 1), stage \in ConnectStages(n)}

ConnectInit ==
    /\ script \in SeqUpTo({Ok(<<"2">>)}, MaxLen)
    /\ endless = FALSE
    /\ \E n \in 0..MaxStages : chain \in ConnectChains(n)
    /\ st = InitSt(Len(chain))
    /\ conn = NotConnectedStream
    /\ out = <<>>
    /\ ChannelIdle
    /\ ConsumeIdle
    /\ BuilderIdle
    /\ ApplyIdle

SpecConnect == ConnectInit /\ [][StreamStep]_vars

\* the error with which the node of a stage cannot be made or executed
StageCannot(stage) ==
    IF stage.kind # "aggregate" THEN Nil
    ELSE IF \/ (stage.aet = "R" /\ stage.agg.t \notin {"Right", "Perfect"})
            \/ (stage.aet = "L" /\ stage.agg.t \notin {"Left", "Perfect"})
            \/ (stage.aet = "Unknown" /\ stage.agg.t = "Unknown")
         THEN ErrInvalidAggregateExecutor
         ELSE Nil

\* the position of the first stage that cannot be made, Len + 1 when all can
FirstCannot(ch) ==
    IF \A k \in 1..Len(ch) : StageCannot(ch[k]) = Nil THEN Len(ch) + 1
    ELSE CHOOSE k \in 1..Len(ch) :
            StageCannot(ch[k]) # Nil /\ \A j \in 1..(k - 1) : StageCannot(ch[j]) = Nil

\* C8: connect applies the factories in the order the stages were added,
\* each to the iterator of the stage before; at the first node that has an
\* error or cannot execute it returns "cannot create stream <id> <error>"
\* and no iterator, having invoked no later factory.
C8_ConnectFailFast ==
    conn.done =>
        LET b == FirstCannot(chain)
        IN  /\ conn.invoked =
                  [k \in 1..(IF b <= Len(chain) THEN b ELSE Len(chain)) |->
                      [factory |-> k, it |-> k - 1]]
            /\ b <= Len(chain) =>
                  /\ ~conn.ok /\ conn.it = NilIt
                  /\ conn.err = <<"cannot create stream", chain[b].nid>> \o StageCannot(chain[b])
            /\ b > Len(chain) => conn.ok /\ conn.it = Len(chain) /\ conn.err = Nil

\* connect failed at the second of three stages
C8_Witness ==
    /\ conn.done /\ ~conn.ok
    /\ Len(chain) = 3
    /\ conn.err = <<"cannot create stream", "N2", "invalid aggregate executor">>
    /\ Len(conn.invoked) = 2

-----------------------------------------------------------------------------
(* The aggregate executor: NewAggregateExecutor(f, it, iv, opt).Execute(). *)

\* the Aggregators: a type and the values the function rejects
Aggregators == [t : {"Right", "Left", "Perfect"}, failOn : SUBSET Vals]

AggregateInit ==
    /\ script \in SeqUpTo(GenItems, MaxLen)
    /\ endless = FALSE
    /\ \E a \in Aggregators, aet \in {"Unknown", "R", "L"} :
          /\ chain = <<AggregateStage(a, <<"iv">>, aet, "", FALSE)>>
          /\ NewAggregateExecutor(chain[1]) = Nil
    /\ st = InitSt(1)
    /\ conn = NotConnected
    /\ out = <<>>
    /\ ChannelIdle
    /\ ConsumeIdle
    /\ BuilderIdle
    /\ ApplyIdle

SpecAggregate == AggregateInit /\ [][ExecutorStep]_vars

\* "(x+y)"
Paren(x, y) == <<"(">> \o x \o <<"+">> \o y \o <<")">>

\* f(x1, f(x2, ... f(xn, iv)))
RECURSIVE FoldRight(_, _)
FoldRight(xs, iv) ==
    IF xs = <<>> THEN iv ELSE Paren(Head(xs), FoldRight(Tail(xs), iv))

\* f(...f(f(iv, x1), x2)..., xn)
RECURSIVE FoldLeft(_, _)
FoldLeft(iv, xs) ==
    IF xs = <<>> THEN iv ELSE FoldLeft(Paren(iv, Head(xs)), Tail(xs))

\* the stage folds right: asked to, or a Right aggregator not asked anything
FoldsRight(stage) ==
    stage.kind = "aggregate"
        /\ (stage.aet = "R" \/ (stage.aet = "Unknown" /\ stage.agg.t = "Right"))

\* the stage folds left: asked to, or a Left or Perfect aggregator not asked
FoldsLeft(stage) ==
    stage.kind = "aggregate"
        /\ (stage.aet = "L" \/ (stage.aet = "Unknown" /\ stage.agg.t \in {"Left", "Perfect"}))

\* the upstream ends in EOI and the Aggregator rejects nothing
NoErrors(stage) == UpstreamEnd(script) = ErrEOI /\ stage.agg.failOn = {}

\* C9: folding right a finite upstream x1..xn without errors, the first
\* Next returns f(x1, f(x2, ... f(xn, iv))), iv itself when n = 0, and
\* the second returns ErrEOI.
C9_FoldRight ==
    (Len(chain) = 1 /\ FoldsRight(chain[1]) /\ NoErrors(chain[1])) =>
        /\ Len(out) >= 1 => out[1] = Ok(FoldRight(UpstreamVals(script), chain[1].iv))
        /\ Len(out) >= 2 => out[2] = Fail(ErrEOI)

\* [1,2,1] folded right gave "(1+(2+(1+iv)))", then EOI
C9_Witness ==
    /\ Len(chain) = 1 /\ FoldsRight(chain[1])
    /\ script = <<Ok(<<"1">>), Ok(<<"2">>), Ok(<<"1">>)>>
    /\ Len(out) = 2
    /\ out[1] = Ok(<<"(", "1", "+", "(", "2", "+", "(", "1", "+", "iv", ")", ")", ")">>)
    /\ out[2] = Fail(ErrEOI)

\* C10: folding left a finite upstream x1..xn without errors, the first
\* Next returns f(...f(f(iv, x1), x2)..., xn), iv itself when n = 0, and
\* the second returns ErrEOI.
C10_FoldLeft ==
    (Len(chain) = 1 /\ FoldsLeft(chain[1]) /\ NoErrors(chain[1])) =>
        /\ Len(out) >= 1 => out[1] = Ok(FoldLeft(chain[1].iv, UpstreamVals(script)))
        /\ Len(out) >= 2 => out[2] = Fail(ErrEOI)

\* [1,2,1] folded left gave "(((iv+1)+2)+1)", then EOI
C10_Witness ==
    /\ Len(chain) = 1 /\ FoldsLeft(chain[1])
    /\ script = <<Ok(<<"1">>), Ok(<<"2">>), Ok(<<"1">>)>>
    /\ Len(out) = 2
    /\ out[1] = Ok(<<"(", "(", "(", "iv", "+", "1", ")", "+", "2", ")", "+", "1", ")">>)
    /\ out[2] = Fail(ErrEOI)

\* NewAggregateExecutor on every Aggregator, one of no type included, and
\* every direction asked for or none
NewAggregateInit ==
    /\ script \in SeqUpTo(GenItems, MaxLen)
    /\ endless = FALSE
    /\ \E t \in {"Unknown", "Right", "Left", "Perfect"}, f \in SUBSET Vals,
          aet \in {"Unknown", "R", "L"} :
          chain = <<AggregateStage([t |-> t, failOn |-> f], <<"iv">>, aet, "", FALSE)>>
    /\ st = InitSt(1)
    /\ conn = NotConstructed
    /\ out = <<>>
    /\ ChannelIdle
    /\ ConsumeIdle
    /\ BuilderIdle
    /\ ApplyIdle

NewAggregateStep == NewExecutor \/ Execute \/ CallNext

SpecNewAggregate == NewAggregateInit /\ [][NewAggregateStep]_vars

\* the direction asked for does not go with the Aggregator's type
Incompatible(stage) ==
    \/ stage.aet = "R" /\ stage.agg.t \notin {"Right", "Perfect"}
    \/ stage.aet = "L" /\ stage.agg.t \notin {"Left", "Perfect"}

\* C12: NewAggregateExecutor returns ErrInvalidAggregateExecutor exactly
\* when a direction is asked for that does not go with the Aggregator's
\* type (right with Right or Perfect only, left with Left or Perfect only);
\* with no direction asked for it returns an executor.
C12_NewAggregateExecutor ==
    (conn.made # "no" /\ Len(chain) = 1 /\ chain[1].kind = "aggregate") =>
        /\ conn.made = "failed" <=> Incompatible(chain[1])
        /\ conn.made = "failed" => conn.err = ErrInvalidAggregateExecutor /\ ~conn.done
        /\ chain[1].aet = "Unknown" => conn.made = "yes"

\* a left fold asked of a Right Aggregator was refused
C12_Witness ==
    /\ Len(chain) = 1 /\ chain[1].kind = "aggregate"
    /\ chain[1].aet = "L" /\ chain[1].agg.t = "Right"
    /\ conn.made = "failed"
    /\ conn.err = ErrInvalidAggregateExecutor

-----------------------------------------------------------------------------
(* The consume executor: NewConsumeExecutor(f, it).ConsumeExecute(), on an *)
(* iterator its caller may have pulled from before and may pull from after.*)

\* the Consumers: the elements the user's function returns "negative" for
Consumers == [valid : {TRUE}, f : [Vals -> {Nil, ErrNegative}]]

ConsumeInit ==
    /\ script \in SeqUpTo(GenItems, MaxLen)
    /\ endless = FALSE
    /\ chain = <<>>
    /\ st = InitSt(0)
    /\ conn = Connected
    /\ out = <<>>
    /\ ChannelIdle
    /\ consumer \in Consumers
    /\ applied = <<>>
    /\ cret = NotReturned
    /\ BuilderIdle
    /\ ApplyIdle

ConsumeStep == CallNext \/ ConsumeExecute

SpecConsume == ConsumeInit /\ [][ConsumeStep]_vars

\* what the source has left to return: nothing once its iterator is over
Rest == IF st.isEOI[0] THEN <<>> ELSE SubSeq(script, st.gcalls + 1, Len(script))

\* the index of the first of xs the Consumer returns an error for, Len + 1
\* when there is none
FirstRefused(xs) ==
    IF \A i \in 1..Len(xs) : consumer.f[xs[i]] = Nil THEN Len(xs) + 1
    ELSE CHOOSE i \in 1..Len(xs) :
            consumer.f[xs[i]] # Nil /\ \A j \in 1..(i - 1) : consumer.f[xs[j]] = Nil

\* C13: ConsumeExecute applies the Consumer to the upstream elements in
\* upstream order up to the first one it returns an error for, or to all
\* of them when there is none; it returns that error, else the upstream's
\* error, nil for EOI; and it has pulled no element past the point where
\* it stopped.
C13_ConsumeExecute ==
    [][(~cret.done /\ cret'.done) =>
         LET xs == UpstreamVals(Rest)
             n == FirstRefused(xs)
         IN  IF n <= Len(xs)
             THEN /\ applied' = SubSeq(xs, 1, n)
                  /\ cret'.err = consumer.f[xs[n]]
                  /\ st'.gcalls = st.gcalls + n
             ELSE /\ applied' = xs
                  /\ cret'.err = IF UpstreamEnd(Rest) = ErrEOI THEN Nil ELSE UpstreamEnd(Rest)
                  /\ st'.gcalls = IF st.isEOI[0] THEN st.gcalls ELSE st.gcalls + Len(xs) + 1
    ]_vars

\* of [1, 2, 1] the Consumer took 1, returned its error for 2, and the
\* third element was not pulled
C13_Witness ==
    /\ script = <<Ok(<<"1">>), Ok(<<"2">>), Ok(<<"1">>)>>
    /\ out = <<>>
    /\ cret = [done |-> TRUE, err |-> ErrNegative]
    /\ applied = <<<<"1">>, <<"2">>>>
    /\ st.gcalls = 2

\* some element the fold hands to the Aggregator is one it rejects
ApplyFails(stage) == \E i \in 1..Len(UpstreamVals(script)) : UpstreamVals(script)[i] \in stage.agg.failOn

\* the error the fold meets: folding right the upstream is read to its end
\* before the Aggregator is applied, folding left each element is applied
\* as it is read
FoldErr(stage) ==
    IF FoldsRight(stage)
    THEN IF UpstreamEnd(script) # ErrEOI THEN UpstreamEnd(script) ELSE ErrUser
    ELSE IF ApplyFails(stage) THEN ErrUser ELSE UpstreamEnd(script)

\* C11: when the upstream yields an error that is not EOI or the
\* Aggregator returns an error during the fold, the first Next of the
\* aggregate iterator returns that error and no value, and every later
\* Next returns ErrEOI.
C11_AggregateFailure ==
    (Len(chain) = 1 /\ chain[1].kind = "aggregate" /\ ~NoErrors(chain[1])
        /\ (UpstreamEnd(script) # ErrEOI \/ ApplyFails(chain[1]))) =>
        \A j \in 1..Len(out) :
            out[j] = IF j = 1 THEN Fail(FoldErr(chain[1])) ELSE Fail(ErrEOI)

\* a right fold read [1, 2] and then the upstream's error, a left fold was
\* rejected by the Aggregator: the error, then EOI
C11_Witness ==
    /\ Len(chain) = 1 /\ chain[1].kind = "aggregate"
    /\ Len(out) >= 2
    /\ out[2] = Fail(ErrEOI)
    /\ \/ /\ FoldsRight(chain[1])
          /\ script = <<Ok(<<"1">>), Ok(<<"2">>), Fail(ErrUser)>>
          /\ out[1] = Fail(ErrUser)
       \/ /\ FoldsLeft(chain[1])
          /\ script = <<Ok(<<"1">>), Ok(<<"2">>)>>
          /\ chain[1].agg.failOn = {<<"2">>}
          /\ out[1] = Fail(ErrUser)

-----------------------------------------------------------------------------
(* The sort executor: NewCompareExecutor(f, it).Execute(). *)

\* the Comparators: x is less than y when its rank is
Comparators == [SortVals -> 1..Cardinality(SortVals)]

SortInit ==
    /\ script \in SeqUpTo({Ok(v) : v \in SortVals} \cup {Fail(ErrUser)}, MaxLen)
    /\ endless = FALSE
    /\ \E f \in Comparators : chain = <<SortStage(f, "", FALSE)>>
    /\ st = InitSt(1)
    /\ conn = NotConnected
    /\ out = <<>>
    /\ ChannelIdle
    /\ ConsumeIdle
    /\ BuilderIdle
    /\ ApplyIdle

SpecSort == SortInit /\ [][ExecutorStep]_vars

\* the ways to rearrange n elements
Perms(n) == {p \in [1..n -> 1..n] : \A i, j \in 1..n : p[i] = p[j] => i = j}

\* ys is xs rearranged in non-decreasing order of f, the elements of equal
\* rank in the order they have in xs
StablySorted(f, xs, ys) ==
    /\ Len(ys) = Len(xs)
    /\ \E p \in Perms(Len(xs)) :
          /\ \A i \in 1..Len(xs) : ys[i] = xs[p[i]]
          /\ \A i, j \in 1..Len(xs) :
                i < j => /\ ~(f[ys[j]] < f[ys[i]])
                         /\ (f[ys[i]] = f[ys[j]] => p[i] < p[j])

\* C14: of a finite upstream without errors and a Comparator that is a
\* strict less-than, the sort stage yields the upstream elements
\* rearranged in non-decreasing order, the elements that compare equal in
\* their upstream order, and then EOI.
C14_SortStable ==
    (Len(chain) = 1 /\ chain[1].kind = "sort" /\ UpstreamEnd(script) = ErrEOI) =>
        LET xs == UpstreamVals(script)
        IN  /\ \A j \in 1..Len(out) :
                  IF j <= Len(xs) THEN out[j].err = Nil ELSE out[j] = Fail(ErrEOI)
            /\ Len(out) >= Len(xs) =>
                  StablySorted(chain[1].cmp, xs, [j \in 1..Len(xs) |-> out[j].val])

\* [3, 1, 2] came out as [1, 2, 3] under the usual order, and [2, 1, 3] as
\* [2, 3, 1] when 2 and 3 compare equal and 1 is greater
C14_Witness ==
    /\ Len(chain) = 1 /\ chain[1].kind = "sort"
    /\ Len(out) = 4 /\ out[4] = Fail(ErrEOI)
    /\ \/ /\ script = <<Ok(<<"3">>), Ok(<<"1">>), Ok(<<"2">>)>>
          /\ chain[1].cmp = [v \in SortVals |-> IF v = <<"1">> THEN 1 ELSE IF v = <<"2">> THEN 2 ELSE 3]
          /\ <<out[1], out[2], out[3]>> = <<Ok(<<"1">>), Ok(<<"2">>), Ok(<<"3">>)>>
       \/ /\ script = <<Ok(<<"2">>), Ok(<<"1">>), Ok(<<"3">>)>>
          /\ chain[1].cmp = [v \in SortVals |-> IF v = <<"1">> THEN 2 ELSE 1]
          /\ <<out[1], out[2], out[3]>> = <<Ok(<<"2">>), Ok(<<"3">>), Ok(<<"1">>)>>

-----------------------------------------------------------------------------
(* The flat executor: NewFlatExecutor(it).Execute(). *)

\* the elements of the sources that are flattened: 1, [1], [2, 1], [[1], 2]
\* and the empty slice
FlatVals ==
    {<<"1">>, <<"[", "1", "]">>, <<"[", "2", "1", "]">>,
     <<"[", "[", "1", "]", "2", "]">>, <<"[", "]">>}

FlatInit ==
    /\ script \in SeqUpTo({Ok(v) : v \in FlatVals} \cup {Fail(ErrUser)}, MaxLen)
    /\ endless = FALSE
    /\ chain = <<FlatStage("", FALSE)>>
    /\ st = InitSt(1)
    /\ conn = NotConnected
    /\ out = <<>>
    /\ ChannelIdle
    /\ ConsumeIdle
    /\ BuilderIdle
    /\ ApplyIdle

SpecFlat == FlatInit /\ [][ExecutorStep]_vars

\* one level of each of FlatVals
OneLevel(v) ==
    CASE v = <<"1">> -> <<<<"1">>>>
      [] v = <<"[", "1", "]">> -> <<<<"1">>>>
      [] v = <<"[", "2", "1", "]">> -> <<<<"2">>, <<"1">>>>
      [] v = <<"[", "[", "1", "]", "2", "]">> -> <<<<"[", "1", "]">>, <<"2">>>>
      [] v = <<"[", "]">> -> <<>>

\* one level of each of xs, one after the other
RECURSIVE Flattened(_)
Flattened(xs) == IF xs = <<>> THEN <<>> ELSE OneLevel(Head(xs)) \o Flattened(Tail(xs))

\* C15: the flat stage yields, in upstream order, the members of each
\* upstream element that is a slice or array and the element itself when
\* it is a scalar; a member that is a collection is yielded as it is; then
\* comes the end of the upstream.
C15_FlatOneLevel ==
    (Len(chain) = 1 /\ chain[1].kind = "flat") =>
        \A j \in 1..Len(out) :
            out[j] = ThenEnd(Flattened(UpstreamVals(script)), UpstreamEnd(script), j)

\* [[[1], 2], 1, [2, 1]] gave [1], 2, 1, 2
C15_Witness ==
    /\ Len(chain) = 1 /\ chain[1].kind = "flat"
    /\ script = <<Ok(<<"[", "[", "1", "]", "2", "]">>), Ok(<<"1">>), Ok(<<"[", "2", "1", "]">>)>>
    /\ out = <<Ok(<<"[", "1", "]">>), Ok(<<"2">>), Ok(<<"1">>), Ok(<<"2">>)>>

-----------------------------------------------------------------------------
(* A StreamBuilder of map and filter stages, run up to MaxRuns times:      *)
(* NewStreamBuilder(it).Map(f).Filter(g, WithNodeID("N2"))...Execute().    *)

\* the sources of the builder: slices, and a generator that fails
BuilderScripts ==
    {<<>>, <<Ok(<<"1">>), Ok(<<"2">>)>>, <<Ok(<<"2">>), Ok(<<"1">>)>>,
     <<Ok(<<"1">>), Fail(ErrUser)>>}

\* what Map and Filter can add at position k: a Mapper and a failing
\* Filter without WithNodeID (the id of the StreamConfig is then ""), a
\* failing Filter with WithNodeID, and functions that are no Mapper and no
\* Filter
BuilderStages(k) ==
    {BuilderNode(MapStage(NoMapper, "", TRUE), TRUE),
     BuilderNode(MapStage(NoMapper, "", TRUE), FALSE),
     BuilderNode(FilterStage(NoFilter, "", TRUE), FALSE)}
        \cup {BuilderNode(FilterStage(f, nid, TRUE), TRUE) :
                  f \in {g \in StreamFilters(k) : \E v \in Vals : g[v].err # Nil},
                  nid \in {"", NodeID(k)}}

\* the builders of n stages
RECURSIVE BuilderChains(_)
BuilderChains(n) ==
    IF n = 0 THEN {<<>>}
    ELSE {Append(c, node) : c \in BuilderChains(n - 1), node \in BuilderStages(n)}

\* a func(interface{}) error that accepts everything, and a function that
\* is no Consumer
BuilderConsumers == {NoConsumer, [NoConsumer EXCEPT !.valid = FALSE]}

BuilderInit ==
    /\ script \in BuilderScripts
    /\ endless = FALSE
    /\ \E n \in 1..MaxStages : bnodes \in BuilderChains(n)
    /\ chain = <<>>
    /\ st = InitSt(0)
    /\ conn = NotConnectedStream
    /\ out = <<>>
    /\ ChannelIdle
    /\ consumer \in BuilderConsumers
    /\ applied = <<>>
    /\ cret = NotReturned
    /\ runs = <<>>
    /\ ApplyIdle

\* Next on the iterator the last Execute of the builder returned
BuilderCallNext ==
    /\ runs # <<>>
    /\ runs[Len(runs)].op = "Execute"
    /\ CallNext

BuilderStep ==
    BuilderExecute \/ BuilderConsume \/ BuilderConsumeExecute \/ BuilderCallNext

SpecBuilder == BuilderInit /\ [][BuilderStep]_vars

\* the id the stage at position k (from 1) of the builder is said to have:
\* the one WithNodeID gave, else its zero-based position
DefaultID(k) ==
    IF bnodes[k].stage.nid = "" THEN ToString(k - 1) ELSE bnodes[k].stage.nid

\* the said ids of stages n, n - 1, ..., i, the most recent stage first
RECURSIVE DefaultTags(_, _)
DefaultTags(n, i) ==
    IF n < i \/ n < 1 THEN <<>> ELSE <<DefaultID(n)>> \o DefaultTags(n - 1, i)

\* C16: a stage without WithNodeID has its zero-based position as its id: an
\* error read from the first pipeline a builder of n stages connects is
\* ErrEOI, or the cause of the stage i that raised it after the ids of
\* stages n, ..., i, a stage without WithNodeID tagging with its position
\* ("2 1 <cause>", "0 <cause>", "N3 1 <cause>").
C16_DefaultIds ==
    (Len(runs) = 1 /\ conn.ok /\ Len(chain) = Len(bnodes)) =>
        \A j \in 1..Len(out) :
            \/ out[j].err = Nil
            \/ out[j].err = ErrEOI
            \/ out[j].err = DefaultTags(Len(chain), 1) \o ErrUser
            \/ \E i \in 1..Len(chain) :
                  /\ chain[i].kind = "filter"
                  /\ out[j].err = DefaultTags(Len(chain), i) \o FilterErr(i)

\* the position (from 1) of the first stage of the builder whose function is
\* not of the shape of its adapter, 0 when there is none
FirstInvalid ==
    IF \A i \in 1..Len(bnodes) : AdapterErr(bnodes[i]) = Nil THEN 0
    ELSE CHOOSE i \in 1..Len(bnodes) :
            /\ AdapterErr(bnodes[i]) # Nil
            /\ \A k \in 1..(i - 1) : AdapterErr(bnodes[k]) = Nil

\* C17: Execute and Consume of a builder whose stage at zero-based position
\* i is the first with an invalid function fail with
\* "[i] cannot create stream invalid <kind>".
C17_InvalidAdapter ==
    FirstInvalid # 0 =>
        \A r \in 1..Len(runs) :
            runs[r].err = <<"[" \o ToString(FirstInvalid - 1) \o "]">>
                              \o ErrCannotCreateStream \o AdapterErr(bnodes[FirstInvalid])

\* C18: Consume of a builder with a function that is no Consumer returns
\* "cannot create stream invalid consumer", and in that call no element is
\* pulled from the source, no function of a stage or of the consumer is
\* called, and nothing is connected.
C18_InvalidConsumer ==
    [][(~cret.done /\ cret'.done /\ NewConsumer(consumer) # Nil) =>
          /\ cret'.err = ErrCannotCreateStream \o ErrInvalidConsumer
          /\ st'.gcalls = st.gcalls
          /\ st'.fcalled = st.fcalled
          /\ applied' = applied
          /\ chain' = chain]_vars

\* Consume with no Consumer on a builder of valid stages over [1, 2], after
\* an Execute: it has failed, and the source was never asked
C18_Witness ==
    /\ cret.done
    /\ NewConsumer(consumer) # Nil
    /\ cret.err = <<"cannot create stream", "invalid consumer">>
    /\ FirstInvalid = 0
    /\ Len(script) = 2
    /\ Len(runs) = 1
    /\ st.gcalls = 0

\* C20: the configuration of a builder is reusable: every Execute (or
\* Consume) that connects gets a pipeline of the configured stages, each
\* once and in the configured order, the second as the first.
C20_Reusable ==
    \A r \in 1..Len(runs) :
        runs[r].err = Nil =>
            runs[r].stages = [i \in 1..Len(bnodes) |-> bnodes[i].stage]

-----------------------------------------------------------------------------
(* A StreamBuilder of map, filter, aggregate, sort and flat stages, all of *)
(* them valid, and what connecting it calls.                               *)

\* what Map, Filter, Aggregate, Sort and Flat can add: a Mapper and a Filter
\* that accept everything, a func(interface{}, interface{}) interface{}, a
\* Comparator that puts 1 first, and Flat
LazyStages ==
    {BuilderNode(MapStage(NoMapper, "", TRUE), TRUE),
     BuilderNode(FilterStage(NoFilter, "", TRUE), TRUE),
     BuilderNode(AggregateStage([t |-> "Perfect", failOn |-> {}], <<"iv">>, "Unknown",
                                "", TRUE), TRUE),
     BuilderNode(SortStage([v \in SortVals |-> IF v = <<"1">> THEN 1 ELSE 2], "", TRUE),
                 TRUE),
     BuilderNode(FlatStage("", TRUE), TRUE)}

\* the builders of n such stages
RECURSIVE LazyChains(_)
LazyChains(n) ==
    IF n = 0 THEN {<<>>}
    ELSE {Append(c, node) : c \in LazyChains(n - 1), node \in LazyStages}

LazyInit ==
    /\ script \in BuilderScripts
    /\ endless = FALSE
    /\ \E n \in 1..MaxStages : bnodes \in LazyChains(n)
    /\ chain = <<>>
    /\ st = InitSt(0)
    /\ conn = NotConnectedStream
    /\ out = <<>>
    /\ ChannelIdle
    /\ ConsumeIdle
    /\ runs = <<>>
    /\ ApplyIdle

LazyStep == BuilderExecute \/ BuilderCallNext

SpecLazy == LazyInit /\ [][LazyStep]_vars

\* C19: connecting is lazy: a step in which Execute of the builder makes the
\* executors and connects the stream calls neither the source nor a function
\* of a stage, so that nothing has been called when the first Execute has
\* returned; the calls come with Next.
C19_Lazy ==
    [][Len(runs') > Len(runs) =>
          /\ st'.gcalls = st.gcalls
          /\ st'.fcalled = st.fcalled
          /\ st.isEOI[0] = st'.isEOI[0]
          /\ (runs = <<>> => st'.gcalls = 0 /\ ~st'.fcalled)]_vars

\* a builder of a sort, an aggregate and a map over [2, 1] is connected, and
\* the source has not been asked
C19_Witness ==
    /\ Len(runs) = 1 /\ conn.ok /\ out = <<>>
    /\ Len(chain) = 3
    /\ chain[1].kind = "sort" /\ chain[2].kind = "aggregate" /\ chain[3].kind = "map"
    /\ script = <<Ok(<<"2">>), Ok(<<"1">>)>>
    /\ st.gcalls = 0 /\ ~st.fcalled

\* the first Next on that pipeline has read the whole source and called the
\* functions
C19_Pulled ==
    /\ Len(runs) = 1 /\ conn.ok /\ Len(out) = 1
    /\ Len(chain) = 3
    /\ chain[1].kind = "sort" /\ chain[2].kind = "aggregate" /\ chain[3].kind = "map"
    /\ script = <<Ok(<<"2">>), Ok(<<"1">>)>>
    /\ st.gcalls = 3 /\ st.fcalled

-----------------------------------------------------------------------------
(* The channel materializer: it.Channel() and it.ChannelWithContext(ctx)   *)
(* on the iterator of a generator, the goroutine of iterate (the producer),*)
(* the goroutine iterate starts (the watcher), and the caller ranging over *)
(* C() (the consumer).  s.c is unbuffered: a send completes in the step of *)
(* the goroutine that receives it.                                         *)

\* iterate going on to Next whatever isClosed holds
iterateGetIgnoring ==
    /\ ppc = "loop"
    /\ ppc' = "next"
    /\ UNCHANGED <<ctxMode, ctxDone, isClosed, cerr, cClosed, pv, wpc, cpc, received, drained>>
    /\ UNCHANGED pvars
    /\ UNCHANGED kvars
    /\ UNCHANGED bvars
    /\ UNCHANGED avars

\* iterate: if s.isClosed.Get() { return }
iterateGet ==
    /\ ppc = "loop"
    /\ ppc' = IF isClosed THEN "cancel" ELSE "next"
    /\ UNCHANGED <<ctxMode, ctxDone, isClosed, cerr, cClosed, pv, wpc, cpc, received, drained>>
    /\ UNCHANGED pvars
    /\ UNCHANGED kvars
    /\ UNCHANGED bvars
    /\ UNCHANGED avars

\* iterate storing every error of Next, ErrEOI too
iterateNextStoringEOI ==
    /\ ppc = "next"
    /\ LET c == OutNext(conn.it, st)
       IN  /\ st' = c.s
           /\ IF c.r.err # Nil
              THEN /\ cerr' = c.r.err
                   /\ ppc' = "cancel"
                   /\ pv' = pv
              ELSE /\ pv' = c.r.val
                   /\ ppc' = "send"
                   /\ cerr' = cerr
    /\ UNCHANGED <<ctxMode, ctxDone, isClosed, cClosed, wpc, cpc, received, drained>>
    /\ UNCHANGED <<script, endless, chain, conn, out>>
    /\ UNCHANGED kvars
    /\ UNCHANGED bvars
    /\ UNCHANGED avars

\* iterate storing no error of Next
iterateNextStoringNothing ==
    /\ ppc = "next"
    /\ LET c == OutNext(conn.it, st)
       IN  /\ st' = c.s
           /\ IF c.r.err # Nil
              THEN /\ cerr' = cerr
                   /\ ppc' = "cancel"
                   /\ pv' = pv
              ELSE /\ pv' = c.r.val
                   /\ ppc' = "send"
                   /\ cerr' = cerr
    /\ UNCHANGED <<ctxMode, ctxDone, isClosed, cClosed, wpc, cpc, received, drained>>
    /\ UNCHANGED <<script, endless, chain, conn, out>>
    /\ UNCHANGED kvars
    /\ UNCHANGED bvars
    /\ UNCHANGED avars

\* iterate calling Next again while its send is pending, as it could with
\* a buffer in s.c
iterateNextNotWaiting ==
    /\ ppc \in {"next", "send"}
    /\ LET c == OutNext(conn.it, st)
       IN  /\ st' = c.s
           /\ IF c.r.err # Nil
              THEN /\ cerr' = IF c.r.err # ErrEOI THEN c.r.err ELSE cerr
                   /\ ppc' = "cancel"
                   /\ pv' = pv
              ELSE /\ pv' = c.r.val
                   /\ ppc' = "send"
                   /\ cerr' = cerr
    /\ UNCHANGED <<ctxMode, ctxDone, isClosed, cClosed, wpc, cpc, received, drained>>
    /\ UNCHANGED <<script, endless, chain, conn, out>>
    /\ UNCHANGED kvars
    /\ UNCHANGED bvars
    /\ UNCHANGED avars

\* iterate: v, err := s.iter.Next(), s.err = err unless it is ErrEOI
iterateNext ==
    /\ ppc = "next"
    /\ LET c == OutNext(conn.it, st)
       IN  /\ st' = c.s
           /\ IF c.r.err # Nil
              THEN /\ cerr' = IF c.r.err # ErrEOI THEN c.r.err ELSE cerr
                   /\ ppc' = "cancel"
                   /\ pv' = pv
              ELSE /\ pv' = c.r.val
                   /\ ppc' = "send"
                   /\ cerr' = cerr
    /\ UNCHANGED <<ctxMode, ctxDone, isClosed, cClosed, wpc, cpc, received, drained>>
    /\ UNCHANGED <<script, endless, chain, conn, out>>
    /\ UNCHANGED kvars
    /\ UNCHANGED bvars
    /\ UNCHANGED avars

\* iterate returning without the deferred cancel()
iterateCancelNothing ==
    /\ ppc = "cancel"
    /\ ppc' = "close"
    /\ UNCHANGED <<ctxMode, ctxDone, isClosed, cerr, cClosed, pv, wpc, cpc, received, drained>>
    /\ UNCHANGED pvars
    /\ UNCHANGED kvars
    /\ UNCHANGED bvars
    /\ UNCHANGED avars

\* iterate, deferred: cancel()
iterateCancel ==
    /\ ppc = "cancel"
    /\ ctxDone' = TRUE
    /\ ppc' = "close"
    /\ UNCHANGED <<ctxMode, isClosed, cerr, cClosed, pv, wpc, cpc, received, drained>>
    /\ UNCHANGED pvars
    /\ UNCHANGED kvars
    /\ UNCHANGED bvars
    /\ UNCHANGED avars

\* iterate, deferred: close(s.c)
iterateClose ==
    /\ ppc = "close"
    /\ cClosed' = TRUE
    /\ ppc' = "done"
    /\ UNCHANGED <<ctxMode, ctxDone, isClosed, cerr, pv, wpc, cpc, received, drained>>
    /\ UNCHANGED pvars
    /\ UNCHANGED kvars
    /\ UNCHANGED bvars
    /\ UNCHANGED avars

\* the watcher: <-ctx.Done()
watcherDone ==
    /\ wpc = "wait"
    /\ ctxDone
    /\ wpc' = "set"
    /\ UNCHANGED <<ctxMode, ctxDone, isClosed, cerr, cClosed, ppc, pv, cpc, received, drained>>
    /\ UNCHANGED pvars
    /\ UNCHANGED kvars
    /\ UNCHANGED bvars
    /\ UNCHANGED avars

\* the watcher going on to drain without setting isClosed
watcherSetNothing ==
    /\ wpc = "set"
    /\ wpc' = "drain"
    /\ UNCHANGED <<ctxMode, ctxDone, isClosed, cerr, cClosed, ppc, pv, cpc, received, drained>>
    /\ UNCHANGED pvars
    /\ UNCHANGED kvars
    /\ UNCHANGED bvars
    /\ UNCHANGED avars

\* the watcher closing the channel itself when it has set isClosed
watcherSetClosing ==
    /\ wpc = "set"
    /\ isClosed' = TRUE
    /\ cClosed' = TRUE
    /\ wpc' = "drain"
    /\ UNCHANGED <<ctxMode, ctxDone, cerr, ppc, pv, cpc, received, drained>>
    /\ UNCHANGED pvars
    /\ UNCHANGED kvars
    /\ UNCHANGED bvars
    /\ UNCHANGED avars

\* the watcher: s.isClosed.Set(true)
watcherSet ==
    /\ wpc = "set"
    /\ isClosed' = TRUE
    /\ wpc' = "drain"
    /\ UNCHANGED <<ctxMode, ctxDone, cerr, cClosed, ppc, pv, cpc, received, drained>>
    /\ UNCHANGED pvars
    /\ UNCHANGED kvars
    /\ UNCHANGED bvars
    /\ UNCHANGED avars

\* the watcher only waiting for the channel to be closed, receiving nothing
watcherRangeNotReceiving ==
    /\ wpc = "drain"
    /\ cClosed
    /\ wpc' = "done"
    /\ UNCHANGED <<ctxMode, ctxDone, isClosed, cerr, cClosed, ppc, pv, cpc, received, drained>>
    /\ UNCHANGED pvars
    /\ UNCHANGED kvars
    /\ UNCHANGED bvars
    /\ UNCHANGED avars

\* the watcher: for range s.c {}, taking the value of a pending send or
\* leaving the loop when the channel is closed (of an endless source only the
\* first MaxRecv takes are counted)
watcherRange ==
    /\ wpc = "drain"
    /\ \/ /\ ppc = "send"
          /\ ppc' = "loop"
          /\ pv' = Nil
          /\ drained' = IF endless /\ drained >= MaxRecv THEN drained ELSE drained + 1
          /\ wpc' = wpc
       \/ /\ cClosed
          /\ wpc' = "done"
          /\ UNCHANGED <<ppc, pv, drained>>
    /\ UNCHANGED <<ctxMode, ctxDone, isClosed, cerr, cClosed, cpc, received>>
    /\ UNCHANGED pvars
    /\ UNCHANGED kvars
    /\ UNCHANGED bvars
    /\ UNCHANGED avars

\* the consumer: for v := range C(), receiving the value of a pending send
\* (of an endless source only the first MaxRecv are recorded) or leaving
\* the loop when the channel is closed
consumerRange ==
    /\ cpc = "range"
    /\ \/ /\ ppc = "send"
          /\ ppc' = "loop"
          /\ pv' = Nil
          /\ received' = IF endless /\ Len(received) >= MaxRecv THEN received
                          ELSE Append(received, pv)
          /\ cpc' = cpc
       \/ /\ cClosed
          /\ cpc' = "done"
          /\ UNCHANGED <<ppc, pv, received>>
    /\ UNCHANGED <<ctxMode, ctxDone, isClosed, cerr, cClosed, wpc, drained>>
    /\ UNCHANGED pvars
    /\ UNCHANGED kvars
    /\ UNCHANGED bvars
    /\ UNCHANGED avars

\* the caller cancels the context it gave to ChannelWithContext
cancelContext ==
    /\ ctxMode = "cancellable"
    /\ ctxMode' = "cancelled"
    /\ ctxDone' = TRUE
    /\ UNCHANGED <<isClosed, cerr, cClosed, ppc, pv, wpc, cpc, received, drained>>
    /\ UNCHANGED pvars
    /\ UNCHANGED kvars
    /\ UNCHANGED bvars
    /\ UNCHANGED avars

\* newIteratorChannel has returned: both goroutines are started
ChannelInit ==
    /\ \/ /\ endless = FALSE
          /\ script \in SeqUpTo(GenItems, MaxLen)
       \/ /\ endless = TRUE
          /\ script \in SeqUpTo({Ok(v) : v \in Vals}, MaxLen) \ {<<>>}
    /\ chain = <<>>
    /\ st = InitSt(0)
    /\ conn = Connected
    /\ out = <<>>
    /\ ctxMode \in {"background", "cancellable"}
    /\ ctxDone = FALSE /\ isClosed = FALSE /\ cerr = Nil /\ cClosed = FALSE
    /\ ppc = "loop" /\ pv = Nil /\ wpc = "wait" /\ cpc = "range"
    /\ received = <<>> /\ drained = 0
    /\ ConsumeIdle
    /\ BuilderIdle
    /\ ApplyIdle

ChannelStep ==
    \/ iterateGet \/ iterateNext \/ iterateCancel \/ iterateClose
    \/ watcherDone \/ watcherSet \/ watcherRange
    \/ consumerRange
    \/ cancelContext

\* a goroutine that can take a step takes one; the caller need not cancel
ChannelFairness ==
    /\ WF_vars(iterateGet) /\ WF_vars(iterateNext)
    /\ WF_vars(iterateCancel) /\ WF_vars(iterateClose)
    /\ WF_vars(watcherDone) /\ WF_vars(watcherSet) /\ WF_vars(watcherRange)
    /\ WF_vars(consumerRange)

SpecChannel == ChannelInit /\ [][ChannelStep]_vars /\ ChannelFairness

\* xs is the start of what an endless generator over sc yields
EndlessPrefix(xs, sc) == \A i \in 1..Len(xs) : xs[i] = sc[((i - 1) % Len(sc)) + 1].val

\* C5: without cancellation, of an iterator that yields v1..vn and then
\* EOI the consumer that ranges over C() until it is closed has received
\* exactly v1..vn in order, the channel is closed and Err() is nil.
C5_ChannelDrain ==
    (~endless /\ ctxMode # "cancelled" /\ UpstreamEnd(script) = ErrEOI /\ cpc = "done") =>
        /\ received = UpstreamVals(script)
        /\ cClosed
        /\ cerr = Nil

\* three values were received and the channel found closed
C5_Witness ==
    /\ ~endless /\ ctxMode = "background" /\ UpstreamEnd(script) = ErrEOI
    /\ cpc = "done"
    /\ Len(received) = 3

\* C6: when the iterator yields v1..vk and then an error e that is not
\* EOI, and the caller cancels nothing, the channel is closed only with
\* Err() = e and the producer finished (so that Err() has its final value),
\* and the consumer has then received v1..vk.
C6_ChannelFailure ==
    (~endless /\ ctxMode # "cancelled" /\ UpstreamEnd(script) # ErrEOI) =>
        /\ cClosed => cerr = UpstreamEnd(script) /\ ppc = "done"
        /\ cpc = "done" => received = UpstreamVals(script) /\ cClosed

\* two values were received, then the channel found closed with the error
C6_Witness ==
    /\ ~endless /\ ctxMode = "background"
    /\ cpc = "done"
    /\ Len(received) = 2
    /\ cerr = ErrUser

\* C7: of an endless source that never fails, once the caller has cancelled
\* the context the channel is eventually closed and the consumer, which keeps
\* ranging, done, having received a start of the source; Err() is nil.
C7_ChannelCancel ==
    (endless /\ ctxMode = "cancelled")
        ~> (cClosed /\ cpc = "done" /\ cerr = Nil /\ EndlessPrefix(received, script))

\* the context was cancelled after the consumer had received values of an
\* endless source, and the consumer found the channel closed
C7_Witness ==
    /\ endless /\ ctxMode = "cancelled"
    /\ cClosed /\ cpc = "done"
    /\ Len(received) >= 2
    /\ cerr = Nil

\* how many values the producer has pulled from the iterator of a slice or
\* a failing generator: the calls of the generator that returned a value
Pulled == Cardinality({k \in 1..st.gcalls : k <= Len(script) /\ script[k].err = Nil})

\* how many values were taken off the channel, by the consumer and by the
\* watcher
Taken == Len(received) + drained

\* C21: backpressure: in every state of the materializer over a source that
\* ends, the producer has pulled from the iterator as many values as were
\* taken off the channel, or one more (the one it is sending).
C21_Backpressure ==
    ~endless => /\ Pulled - Taken \in {0, 1}
                /\ Pulled - Taken = 1 <=> ppc = "send"

\* the producer holds the third value it pulled, blocked on the send, two
\* values having been received
C21_Witness ==
    /\ ~endless
    /\ ppc = "send"
    /\ Pulled = 3
    /\ Len(received) = 2 /\ drained = 0

\* the watcher took a value off the channel after a cancellation
C21_Drained ==
    /\ ~endless
    /\ drained = 1
    /\ Pulled = Taken

-----------------------------------------------------------------------------
(* The sources of NewIterator: an IteratorFunc (the generator of script),  *)
(* a slice or an array (the elements of script), and an Iterator, which is *)
(* wrapped in a new iterator over its Next.                                *)

\* what NewIterator is given: a generator function, a slice, and either of
\* them made an Iterator first, once or twice
SourceChains ==
    {<<>>, <<SliceStage>>, <<IteratorStage>>, <<SliceStage, IteratorStage>>,
     <<IteratorStage, IteratorStage>>}

SourceInit ==
    /\ chain \in SourceChains
    /\ script \in IF chain # <<>> /\ chain[1].kind = "slice"
                  THEN SeqUpTo({Ok(v) : v \in Vals}, MaxLen)
                  ELSE SeqUpTo(GenItems \cup {Both(<<"1">>, ErrUser)}, MaxLen)
    /\ endless = FALSE
    /\ st = InitSt(Len(chain))
    /\ conn = Connected
    /\ out = <<>>
    /\ ChannelIdle
    /\ ConsumeIdle
    /\ BuilderIdle
    /\ ApplyIdle

SourceStep == CallNext

SpecSource == SourceInit /\ [][SourceStep]_vars

\* C22: the iterator of a slice or array of length n returns the elements
\* at indexes 0..n-1 in that order on the first n calls of Next, and ErrEOI
\* with no value on call n+1 and on every later call.
C22_SliceSource ==
    (chain = <<SliceStage>>) =>
        \A j \in 1..Len(out) :
            out[j] = IF j <= Len(script) THEN Ok(script[j].val) ELSE Fail(ErrEOI)

\* the slice [2, 1] was read to its end, and Next called twice more
C22_Witness ==
    /\ chain = <<SliceStage>>
    /\ script = <<Ok(<<"2">>), Ok(<<"1">>)>>
    /\ out = <<Ok(<<"2">>), Ok(<<"1">>), Fail(ErrEOI), Fail(ErrEOI)>>

\* the results of n calls of Next on iterator k from the state s, each call
\* made once (c ranges over its one result)
RECURSIVE Pulls(_, _, _)
Pulls(k, s, n) ==
    IF n = 0 THEN <<>>
    ELSE CHOOSE r \in {<<c.r>> \o Pulls(k, c.s, n - 1) : c \in {OutNext(k, s)}} : TRUE

\* C23: NewIterator of an Iterator is the identity on what Next returns: the
\* results of the calls of Next on the returned iterator are the results the
\* same calls would have had on the original, untouched, the first error
\* and the ErrEOI results after it included.
C23_IteratorIdentity ==
    (chain # <<>> /\ chain[Len(chain)].kind = "iterator") =>
        out = Pulls(Len(chain) - 1, InitSt(Len(chain)), Len(out))

\* the Iterator of a generator that failed after one value was given to
\* NewIterator: the new iterator gave the value, the error, then ErrEOI
C23_Witness ==
    /\ chain = <<IteratorStage>>
    /\ Len(script) = 3
    /\ out = <<Ok(<<"1">>), Fail(ErrUser), Fail(ErrEOI)>>

\* the same for the Iterator of a slice
C23_SliceWitness ==
    /\ chain = <<SliceStage, IteratorStage>>
    /\ out = <<Ok(<<"2">>), Ok(<<"1">>), Fail(ErrEOI), Fail(ErrEOI)>>

-----------------------------------------------------------------------------
(* The adapters alone: Apply of a Mapper, Filter, Aggregator, Comparator,  *)
(* Consumer, MaybeMapper, TupleMapper, TupleFilter or TupleConsumer on     *)
(* values of any dynamic type.                                             *)

\* a Go value: its dynamic type, its scalar content, its elements
GoVal(k, v, e) == [k |-> k, v |-> v, e |-> e]
IntV(n) == GoVal("int", n, <<>>)
StrV(x) == GoVal("string", x, <<>>)
BoolV(b) == GoVal("bool", IF b THEN "true" ELSE "false", <<>>)
NilV == GoVal("nil", "", <<>>)
\* a []interface{} holding es, and the []int a conversion makes of it
SliceV(es) == GoVal("[]interface {}", "", es)
IntSliceV(es) == GoVal("[]int", "", es)

\* NewRight, NewLeft, and the error a Left holds
NewRight(v) == GoVal("right", "", <<v>>)
NewLeft(v) == GoVal("left", "", <<v>>)
ErrV(e) == GoVal("error", "", [i \in 1..Len(e) |-> GoVal("string", e[i], <<>>)])

\* NewJust, NewNothing, NewTuple
NewJust(v) == GoVal("just", "", <<v>>)
NewNothing == GoVal("nothing", "", <<>>)
NewTuple(es) == GoVal("tuple", "", es)

ErrCannotConvert == <<"cannot convert">>

\* e wraps ErrApply: its message starts with "apply error"
IsApplyError(e) == Len(e) >= 1 /\ SubSeq(e, 1, 1) = ErrApply

\* what a conversion hands back
Converted(v) == [val |-> v, err |-> Nil, panicked |-> FALSE]
\* converter.convert recovering the panic of a conversion
CannotConvert(msg) == [val |-> NilV, err |-> ErrCannotConvert \o <<msg>>, panicked |-> TRUE]

\* the reflect.Kind of a value as the messages of reflect print it
KindName(v) ==
    CASE v.k = "nil" -> "zero"
      [] v.k \in {"just", "nothing", "left", "right", "tuple"} -> "ptr"
      [] OTHER -> v.k

\* converter.convertSlice to []int, shallow: Len panics on a value that has
\* no length, Set panics on an element that is no int (the bytes of a
\* string, which is never empty here, are uint8)
convertSlice(v) ==
    IF v.k = "string"
    THEN CannotConvert("reflect.Set: value of type uint8 is not assignable to type int")
    ELSE IF v.k \notin {"[]interface {}", "[]int"}
    THEN CannotConvert("reflect: call of reflect.Value.Len on " \o KindName(v) \o " Value")
    ELSE IF \E i \in 1..Len(v.e) : v.e[i].k # "int"
    THEN LET i == CHOOSE j \in 1..Len(v.e) :
                     /\ v.e[j].k # "int"
                     /\ \A h \in 1..(j - 1) : v.e[h].k = "int"
         IN  CannotConvert("reflect.Set: value of type " \o v.e[i].k
                               \o " is not assignable to type int")
    ELSE Converted(IntSliceV(v.e))

\* reflection.Convert(v, t, true): a slice type converts its elements, any
\* other type takes the value as it is
Convert(v, t) ==
    IF t = "[]int" THEN convertSlice(v) ELSE Converted(v)

\* the first result of the user's function f on the arguments a
R0(f, a) == IF f.r0.k = "fx" THEN GoVal("int", "f", a) ELSE f.r0

\* reflect.Value.Call of the user's function f on the arguments a: it panics
\* before the function runs when an argument is not of its parameter's type
Call(f, a) ==
    IF \E i \in 1..Len(a) : a[i].k # f.params[i]
    THEN LET i == CHOOSE j \in 1..Len(a) :
                     /\ a[j].k # f.params[j]
                     /\ \A h \in 1..(j - 1) : a[h].k = f.params[h]
         IN  [panic |-> <<"reflect: Call using " \o a[i].k \o " as type " \o f.params[i]>>,
              invoked |-> FALSE, r0 |-> NilV, r1 |-> Nil]
    ELSE IF f.out = "panic"
    THEN [panic |-> <<"boom">>, invoked |-> TRUE, r0 |-> NilV, r1 |-> Nil]
    ELSE [panic |-> Nil, invoked |-> TRUE, r0 |-> R0(f, a),
          r1 |-> IF f.out = "err" THEN ErrUser ELSE Nil]

\* what Apply returns: the result, the error, whether the user's function
\* ran, whether a panic was raised on the way
Applied(val, err, invoked, panicked) ==
    [done |-> TRUE, val |-> val, err |-> err, invoked |-> invoked, panicked |-> panicked]

\* the end of every Apply leaving the error of the user's function
\* without its first result
CallAndReturnDroppingResult(f, a, zero) ==
    LET r == Call(f, a)
    IN  IF r.panic # Nil THEN Applied(zero, ErrApply \o r.panic, r.invoked, TRUE)
        ELSE IF r.r1 # Nil THEN Applied(zero, r.r1, TRUE, FALSE)
        ELSE Applied(r.r0, Nil, TRUE, FALSE)

\* the end of every Apply: Call, the deferred recover turning a panic into
\* the zero result and an error wrapping ErrApply, and the results of the
\* user's function returned as they are
CallAndReturn(f, a, zero) ==
    LET r == Call(f, a)
    IN  IF r.panic # Nil THEN Applied(zero, ErrApply \o r.panic, r.invoked, TRUE)
        ELSE Applied(r.r0, r.r1, TRUE, FALSE)

\* mapper.Apply
mapperApply(f, v) ==
    LET c == Convert(v, f.params[1])
    IN  IF c.err # Nil THEN Applied(NilV, c.err, FALSE, c.panicked)
        ELSE CallAndReturn(f, <<c.val>>, NilV)

\* filter.Apply
filterApply(f, v) ==
    LET c == Convert(v, f.params[1])
    IN  IF c.err # Nil THEN Applied(BoolV(FALSE), c.err, FALSE, c.panicked)
        ELSE CallAndReturn(f, <<c.val>>, BoolV(FALSE))

\* aggregator.Apply
aggregatorApply(f, x, y) ==
    LET cx == Convert(x, f.params[1])
        cy == Convert(y, f.params[2])
    IN  IF cx.err # Nil THEN Applied(NilV, cx.err, FALSE, cx.panicked)
        ELSE IF cy.err # Nil THEN Applied(NilV, cy.err, FALSE, cy.panicked)
        ELSE CallAndReturn(f, <<cx.val, cy.val>>, NilV)

\* comparator.Apply
comparatorApply(f, x, y) ==
    LET cx == Convert(x, f.params[1])
        cy == Convert(y, f.params[2])
    IN  IF cx.err # Nil THEN Applied(BoolV(FALSE), cx.err, FALSE, cx.panicked)
        ELSE IF cy.err # Nil THEN Applied(BoolV(FALSE), cy.err, FALSE, cy.panicked)
        ELSE CallAndReturn(f, <<cx.val, cy.val>>, BoolV(FALSE))

\* consumer.Apply: it has an error and no result
consumerApply(f, v) ==
    LET c == Convert(v, f.params[1])
    IN  IF c.err # Nil THEN Applied(NilV, c.err, FALSE, c.panicked)
        ELSE [CallAndReturn(f, <<c.val>>, NilV) EXCEPT !.val = NilV]

\* just.Map keeping the Just when the Mapper fails
justMapKeeping(x, f) ==
    LET r == mapperApply(f, x.e[1])
    IN  [val |-> IF r.err # Nil THEN x ELSE NewJust(r.val), invoked |-> r.invoked]

\* just.Map and nothing.Map: the Maybe, and whether the Mapper's function ran
justMap(x, f) ==
    LET r == mapperApply(f, x.e[1])
    IN  IF r.err # Nil THEN [val |-> NewNothing, invoked |-> r.invoked]
        ELSE [val |-> NewJust(r.val), invoked |-> r.invoked]

nothingMap(x, f) == [val |-> NewNothing, invoked |-> FALSE]

\* Maybe.Map
MaybeMap(x, f) == IF x.k = "just" THEN justMap(x, f) ELSE nothingMap(x, f)

\* maybeMapper.Apply
maybeMapperApply(f, v) ==
    IF v.k \notin {"just", "nothing"} THEN Applied(NilV, ErrApply, FALSE, FALSE)
    ELSE LET m == MaybeMap(v, f)
         IN  Applied(m.val, Nil, m.invoked, FALSE)

\* right.Map and left.Map: the Either, and whether the Mapper's function ran
rightMap(x, f) ==
    LET r == mapperApply(f, x.e[1])
    IN  IF r.err # Nil THEN [val |-> NewLeft(ErrV(r.err)), invoked |-> r.invoked]
        ELSE [val |-> NewRight(r.val), invoked |-> r.invoked]

leftMap(x, f) == [val |-> x, invoked |-> FALSE]

\* eitherMapper.Apply
eitherMapperApply(f, v) ==
    IF v.k \notin {"left", "right"} THEN Applied(NilV, ErrApply, FALSE, FALSE)
    ELSE LET m == IF v.k = "right" THEN rightMap(v, f) ELSE leftMap(v, f)
         IN  Applied(m.val, Nil, m.invoked, FALSE)

\* what tupleMapper.Apply, tupleFilter.Apply and tupleConsumer.Apply share:
\* the input is a Tuple, its Size is the number of parameters, element i is
\* converted to the type of parameter i, then the function is called
tupleApply(f, v, zero) ==
    IF v.k # "tuple" THEN Applied(zero, ErrApply, FALSE, FALSE)
    ELSE IF Len(v.e) # Len(f.params) THEN Applied(zero, ErrApply, FALSE, FALSE)
    ELSE LET cs == [i \in 1..Len(v.e) |-> Convert(v.e[i], f.params[i])]
         IN  IF \E i \in 1..Len(cs) : cs[i].err # Nil
             THEN LET i == CHOOSE j \in 1..Len(cs) :
                              /\ cs[j].err # Nil
                              /\ \A h \in 1..(j - 1) : cs[h].err = Nil
                  IN  Applied(zero, cs[i].err, FALSE, cs[i].panicked)
             ELSE CallAndReturn(f, [i \in 1..Len(cs) |-> cs[i].val], zero)

tupleMapperApply(f, v) == tupleApply(f, v, NilV)
tupleFilterApply(f, v) == tupleApply(f, v, BoolV(FALSE))
tupleConsumerApply(f, v) == [tupleApply(f, v, NilV) EXCEPT !.val = NilV]

\* what a call of Apply leaves alone
ApplyFrame ==
    /\ UNCHANGED <<adapter, args>>
    /\ UNCHANGED pvars
    /\ UNCHANGED cvars
    /\ UNCHANGED kvars
    /\ UNCHANGED bvars

\* the steps: Apply is called once on the adapter
ApplyMapper ==
    /\ adapter.kind = "mapper"
    /\ ~ret.done
    /\ ret' = mapperApply(adapter, args[1])
    /\ ApplyFrame

ApplyFilter ==
    /\ adapter.kind = "filter"
    /\ ~ret.done
    /\ ret' = filterApply(adapter, args[1])
    /\ ApplyFrame

ApplyAggregator ==
    /\ adapter.kind = "aggregator"
    /\ ~ret.done
    /\ ret' = aggregatorApply(adapter, args[1], args[2])
    /\ ApplyFrame

ApplyComparator ==
    /\ adapter.kind = "comparator"
    /\ ~ret.done
    /\ ret' = comparatorApply(adapter, args[1], args[2])
    /\ ApplyFrame

ApplyConsumer ==
    /\ adapter.kind = "consumer"
    /\ ~ret.done
    /\ ret' = consumerApply(adapter, args[1])
    /\ ApplyFrame

ApplyMaybeMapper ==
    /\ adapter.kind = "maybeMapper"
    /\ ~ret.done
    /\ ret' = maybeMapperApply(adapter, args[1])
    /\ ApplyFrame

ApplyTupleMapper ==
    /\ adapter.kind = "tupleMapper"
    /\ ~ret.done
    /\ ret' = tupleMapperApply(adapter, args[1])
    /\ ApplyFrame

ApplyTupleFilter ==
    /\ adapter.kind = "tupleFilter"
    /\ ~ret.done
    /\ ret' = tupleFilterApply(adapter, args[1])
    /\ ApplyFrame

ApplyTupleConsumer ==
    /\ adapter.kind = "tupleConsumer"
    /\ ~ret.done
    /\ ret' = tupleConsumerApply(adapter, args[1])
    /\ ApplyFrame

\* the types of the parameters, and the values Apply is handed
ParamTypes == {"int", "string", "[]int"}
ApplyVals ==
    {IntV("1"), StrV("a"), NilV,
     SliceV(<<IntV("1"), IntV("2")>>), SliceV(<<IntV("1"), StrV("a")>>),
     IntSliceV(<<IntV("1")>>)}
MaybeVals == {NewNothing} \cup {NewJust(v) : v \in ApplyVals}
TupleVals == {NewTuple(es) : es \in SeqUpTo(ApplyVals, MaxArity)}

\* the user's functions each constructor accepts: the parameters, what the
\* body does (returns, returns an error, panics) and its first result
Funcs(kind, ps, r0s) ==
    [kind : {kind}, params : ps, out : {"ok", "err", "panic"}, r0 : r0s]
AnyResults == {IntV("0"), GoVal("fx", "", <<>>)}
BoolResults == {BoolV(FALSE), BoolV(TRUE)}
OneParam == {<<t>> : t \in ParamTypes}
TwoParams == {<<t, u>> : t \in ParamTypes, u \in ParamTypes}
SameParams == {<<t, t>> : t \in ParamTypes}
Adapters ==
    Funcs("mapper", OneParam, AnyResults)
        \cup Funcs("filter", OneParam, BoolResults)
        \cup Funcs("aggregator", TwoParams, AnyResults)
        \cup Funcs("comparator", SameParams, BoolResults)
        \cup Funcs("consumer", OneParam, {NilV})
        \cup Funcs("maybeMapper", OneParam, AnyResults)
        \cup Funcs("tupleMapper", SeqUpTo(ParamTypes, MaxArity), AnyResults)
        \cup Funcs("tupleFilter", SeqUpTo(ParamTypes, MaxArity), BoolResults)
        \cup Funcs("tupleConsumer", SeqUpTo(ParamTypes, MaxArity), {NilV})

\* the arguments a caller can hand to the Apply of an adapter of this kind
ApplyArgs(kind) ==
    IF kind \in {"aggregator", "comparator"}
    THEN {<<x, y>> : x \in ApplyVals, y \in ApplyVals}
    ELSE {<<x>> : x \in ApplyVals \cup MaybeVals \cup TupleVals}

ApplyInit ==
    /\ script = <<>>
    /\ endless = FALSE
    /\ chain = <<>>
    /\ st = InitSt(0)
    /\ conn = NotConnected
    /\ out = <<>>
    /\ ChannelIdle
    /\ ConsumeIdle
    /\ BuilderIdle
    /\ adapter \in Adapters
    /\ args \in ApplyArgs(adapter.kind)
    /\ ret = NotApplied

ApplyStep ==
    \/ ApplyMapper
    \/ ApplyFilter
    \/ ApplyAggregator
    \/ ApplyComparator
    \/ ApplyConsumer
    \/ ApplyMaybeMapper
    \/ ApplyTupleMapper
    \/ ApplyTupleFilter
    \/ ApplyTupleConsumer

SpecApply == ApplyInit /\ [][ApplyStep]_vars

\* the Mapper's function ran on the input and returned an error
MapperUserError ==
    /\ ret.done
    /\ adapter.kind = "mapper"
    /\ ret.invoked
    /\ adapter.out = "err"

C25_FalseOnError ==
    (ret.done /\ adapter.kind = "filter" /\ ret.err # Nil) => ret.val = BoolV(FALSE)

\* the adapters over a plain function, and the tuple adapters
PlainKinds == {"mapper", "filter", "aggregator", "comparator", "consumer"}
TupleKinds == {"tupleMapper", "tupleFilter", "tupleConsumer"}

\* the value v can be passed as a parameter of type t: it is of that type,
\* or t is []int and v is a slice of ints
Fits(v, t) ==
    IF t = "[]int"
    THEN v.k \in {"[]interface {}", "[]int"} /\ \A i \in 1..Len(v.e) : v.e[i].k = "int"
    ELSE v.k = t

\* the values Apply coerces, one for each parameter: its arguments, or the
\* elements of the Tuple it is handed
Coerced ==
    IF adapter.kind \in PlainKinds THEN args
    ELSE IF adapter.kind \in TupleKinds /\ args[1].k = "tuple"
              /\ Len(args[1].e) = Len(adapter.params)
    THEN args[1].e
    ELSE <<>>

\* one of them cannot be coerced to the type of its parameter
CoercionFails == \E i \in 1..Len(Coerced) : ~Fits(Coerced[i], adapter.params[i])

\* the result Apply returns with the error of a recovered panic
ZeroResult == IF adapter.kind \in {"filter", "comparator"} THEN BoolV(FALSE) ELSE NilV

\* C26: a panic raised while Mapper, Filter, Aggregator, Comparator or
\* Consumer Apply coerces its arguments or invokes the user's function does
\* not reach the caller: Apply returns an error that wraps ErrApply (message
\* prefixed "apply error") and a zero result.
C26_PanicContained ==
    (ret.done /\ adapter.kind \in PlainKinds /\ ret.panicked) =>
        /\ IsApplyError(ret.err)
        /\ ret.val = ZeroResult

\* C27: every error that an adapter's Apply returns because an argument
\* cannot be coerced to the type of the function's parameter (a scalar of
\* another type as well as a failed slice conversion) wraps ErrApply: its
\* message is prefixed with "apply error".
C27_CoercionWrapsErrApply ==
    (ret.done /\ CoercionFails) => IsApplyError(ret.err)

\* C28: MaybeMapper.Apply on Just(v) returns Just(f(v)) when the inner
\* Mapper succeeds and Nothing when the inner Mapper errors, with a nil
\* error in both cases; on Nothing it returns Nothing without invoking the
\* inner Mapper; on an input that is not a Maybe it returns an apply error.
C28_MaybeMapper ==
    (ret.done /\ adapter.kind = "maybeMapper") =>
        LET v == args[1]
        IN  CASE v.k = "just" ->
                   LET inner == mapperApply(adapter, v.e[1])
                   IN  /\ ret.err = Nil
                       /\ ret.val = IF inner.err = Nil THEN NewJust(inner.val)
                                    ELSE NewNothing
              [] v.k = "nothing" ->
                   /\ ret.err = Nil
                   /\ ret.val = NewNothing
                   /\ ~ret.invoked
              [] OTHER ->
                   /\ IsApplyError(ret.err)
                   /\ ~ret.invoked

\* Just(1) was mapped to Just(f(1))
C28_Witness ==
    /\ ret.done
    /\ adapter.kind = "maybeMapper"
    /\ args = <<NewJust(IntV("1"))>>
    /\ ret.val = NewJust(GoVal("int", "f", <<IntV("1")>>))
    /\ ret.err = Nil

\* a Just whose Mapper failed (its function returned an error, panicked or
\* could not take the value) was mapped to Nothing
C28_Demoted ==
    /\ ret.done
    /\ adapter.kind = "maybeMapper"
    /\ args[1].k = "just"
    /\ adapter.out = "err"
    /\ ret.invoked
    /\ ret.val = NewNothing
    /\ ret.err = Nil

\* C29: the Apply of TupleMapper, TupleFilter and TupleConsumer invokes the
\* wrapped function only when the input is a Tuple whose Size is the number
\* of parameters of the function, passing element i as argument i; an input
\* that is no Tuple, a Size other than the number of parameters, or an
\* element that cannot be passed as its parameter yields an apply error and
\* the function is not invoked.
C29_TupleApply ==
    (ret.done /\ adapter.kind \in TupleKinds) =>
        LET v == args[1]
        IN  IF /\ v.k = "tuple"
               /\ Len(v.e) = Len(adapter.params)
               /\ \A i \in 1..Len(v.e) : Fits(v.e[i], adapter.params[i])
            THEN /\ ret.invoked
                 /\ (adapter.out = "ok" /\ adapter.r0.k = "fx") =>
                        ret.val = GoVal("int", "f",
                                        [i \in 1..Len(v.e) |->
                                            Convert(v.e[i], adapter.params[i]).val])
            ELSE /\ ~ret.invoked
                 /\ IsApplyError(ret.err)

-----------------------------------------------------------------------------
(* The direction of the aggregate executor. *)

\* C30: when no direction is requested, a Right aggregator is executed as
\* fold-right and a Left or Perfect aggregator as fold-left; a compatible
\* direction requested explicitly overrides the inference (a Perfect
\* aggregator with fold-right requested is folded right).
C30_Direction ==
    (Len(chain) = 1 /\ chain[1].kind = "aggregate" /\ NoErrors(chain[1]) /\ Len(out) >= 1) =>
        LET stage == chain[1]
            right == Ok(FoldRight(UpstreamVals(script), stage.iv))
            left == Ok(FoldLeft(stage.iv, UpstreamVals(script)))
        IN  CASE stage.aet = "R" -> out[1] = right
              [] stage.aet = "L" -> out[1] = left
              [] stage.aet = "Unknown" /\ stage.agg.t = "Right" -> out[1] = right
              [] OTHER -> out[1] = left

\* a Perfect aggregator asked to fold right folded [1,2] to "(1+(2+iv))"
C30_Witness ==
    /\ Len(chain) = 1
    /\ chain[1].kind = "aggregate"
    /\ chain[1].agg.t = "Perfect"
    /\ chain[1].aet = "R"
    /\ script = <<Ok(<<"1">>), Ok(<<"2">>)>>
    /\ Len(out) >= 1
    /\ out[1] = Ok(<<"(", "1", "+", "(", "2", "+", "iv", ")", ")">>)

\* a Perfect aggregator asked nothing folded [1,2] to "((iv+1)+2)"
C30_Inferred ==
    /\ Len(chain) = 1
    /\ chain[1].kind = "aggregate"
    /\ chain[1].agg.t = "Perfect"
    /\ chain[1].aet = "Unknown"
    /\ script = <<Ok(<<"1">>), Ok(<<"2">>)>>
    /\ Len(out) >= 1
    /\ out[1] = Ok(<<"(", "(", "iv", "+", "1", ")", "+", "2", ")">>)

-----------------------------------------------------------------------------
(* The sort executor with a Comparator that fails. *)

\* the Comparators that cannot take every element: a comparison with an
\* element outside their domain is an error
FailingComparators ==
    UNION {[D -> 1..Cardinality(SortVals)] : D \in (SUBSET SortVals) \ {SortVals}}

SortFailingInit ==
    /\ script \in SeqUpTo({Ok(v) : v \in SortVals} \cup {Fail(ErrUser)}, MaxLen)
    /\ endless = FALSE
    /\ \E f \in FailingComparators : chain = <<SortStage(f, "", FALSE)>>
    /\ st = InitSt(1)
    /\ conn = NotConnected
    /\ out = <<>>
    /\ ChannelIdle
    /\ ConsumeIdle
    /\ BuilderIdle
    /\ ApplyIdle

SpecSortFailing == SortFailingInit /\ [][ExecutorStep]_vars

\* ys is xs rearranged
IsPermutation(xs, ys) ==
    /\ Len(ys) = Len(xs)
    /\ \E p \in Perms(Len(xs)) : \A i \in 1..Len(xs) : ys[i] = xs[p[i]]

\* some comparison of two upstream elements is an error
ComparisonFails(f, xs) ==
    \E i, j \in 1..Len(xs) : i # j /\ ComparatorApply(f, xs[i], xs[j]).err # Nil

\* C31: an error of the Comparator during a comparison does not abort the
\* sort and is not surfaced by the sorted iterator: the comparison counts
\* as "not less than", and the output is still a permutation of all the
\* upstream elements, then EOI. When every comparison fails no element is
\* less than another and the elements come out in their upstream order.
C31_SortFailingComparator ==
    (Len(chain) = 1 /\ chain[1].kind = "sort" /\ UpstreamEnd(script) = ErrEOI) =>
        LET xs == UpstreamVals(script)
            ys == [j \in 1..Len(xs) |-> out[j].val]
        IN  /\ \A j \in 1..Len(out) :
                  IF j <= Len(xs) THEN out[j].err = Nil ELSE out[j] = Fail(ErrEOI)
            /\ Len(out) >= Len(xs) =>
                  /\ IsPermutation(xs, ys)
                  /\ DOMAIN chain[1].cmp = {} => ys = xs

\* [3, 1, 2] sorted by a Comparator that cannot take 1: all three elements
\* came out, then EOI
C31_Witness ==
    /\ Len(chain) = 1 /\ chain[1].kind = "sort"
    /\ script = <<Ok(<<"3">>), Ok(<<"1">>), Ok(<<"2">>)>>
    /\ <<"1">> \notin DOMAIN chain[1].cmp
    /\ ComparisonFails(chain[1].cmp, UpstreamVals(script))
    /\ Len(out) = 4
    /\ IsPermutation(UpstreamVals(script), <<out[1].val, out[2].val, out[3].val>>)
    /\ out[4] = Fail(ErrEOI)

-----------------------------------------------------------------------------
(* One error at the output of a connected chain. *)

\* C32: at the output of a connected chain at most one error that is not
\* EOI is ever returned: after the first Next that returns a (tagged)
\* error, every later Next returns the untagged ErrEOI, even though the
\* stages upstream of the failing one still hold unread elements.
C32_OneError ==
    \A i, j \in 1..Len(out) :
        (i < j /\ out[i].err # Nil /\ out[i].err # ErrEOI) => out[j] = Fail(ErrEOI)

\* the Filter of stage 2 failed on the first element, which the Mapper of
\* stage 1 made of the 1 of the source; the next Next returned ErrEOI with
\* two more elements unread in the source
C32_Witness ==
    /\ Len(chain) >= 2
    /\ chain[2].kind = "filter"
    /\ Len(script) = 3
    /\ \A i \in 1..3 : script[i] = Ok(<<"1">>)
    /\ Len(out) >= 2
    /\ out[1] = Fail(Tags(Len(chain), 2) \o FilterErr(2))
    /\ out[2] = Fail(ErrEOI)
    /\ st.gcalls = 1

-----------------------------------------------------------------------------
(* A MaybeMap, EitherMap or TupleMap stage of a stream. *)

\* the elements of the source: plain values and containers of every kind
ContainerElems ==
    {IntV("1"), StrV("a"),
     NewJust(IntV("1")), NewNothing,
     NewRight(IntV("1")), NewLeft(StrV("a")),
     NewTuple(<<IntV("1")>>), NewTuple(<<StrV("a")>>),
     NewTuple(<<IntV("1"), StrV("a")>>)}

\* the functions MaybeMap, EitherMap and TupleMap are given
ContainerAdapters ==
    [kind : {"maybeMapper", "eitherMapper"}, params : {<<"int">>},
     out : {"ok", "err"}, r0 : {GoVal("fx", "", <<>>)}]
        \cup [kind : {"tupleMapper"},
              params : {<<"int">>, <<"int", "string">>, <<"[]int">>},
              out : {"ok", "err"}, r0 : {GoVal("fx", "", <<>>)}]

\* the Apply of the Mapper that NewMaybeMapper, NewEitherMapper or
\* NewTupleMapper made
ContainerApply(a, v) ==
    CASE a.kind = "maybeMapper" -> maybeMapperApply(a, v)
      [] a.kind = "eitherMapper" -> eitherMapperApply(a, v)
      [] OTHER -> tupleMapperApply(a, v)

\* that Mapper as the map stage holds it
ContainerMapper(a) ==
    [v \in ContainerElems |->
        LET r == ContainerApply(a, v) IN [val |-> r.val, err |-> r.err]]

\* NewStreamBuilder(it).MaybeMap(f) (EitherMap, TupleMap): a.Map(x) with
\* the Mapper x made of f
ContainerInit ==
    /\ script \in SeqUpTo({Ok(v) : v \in ContainerElems}, MaxLen)
    /\ endless = FALSE
    /\ adapter \in ContainerAdapters
    /\ args = <<>>
    /\ ret = NotApplied
    /\ chain = <<MapStage(ContainerMapper(adapter), NodeID(1), TRUE)>>
    /\ st = InitSt(1)
    /\ conn = NotConnectedStream
    /\ out = <<>>
    /\ ChannelIdle
    /\ ConsumeIdle
    /\ BuilderIdle

SpecContainer == ContainerInit /\ [][StreamStep]_vars

\* v is not of the kind the stage takes: no Maybe, no Either, or no Tuple
\* of the size and element types of the function's parameters
WrongKind(a, v) ==
    CASE a.kind = "maybeMapper" -> v.k \notin {"just", "nothing"}
      [] a.kind = "eitherMapper" -> v.k \notin {"left", "right"}
      [] OTHER -> ~(/\ v.k = "tuple"
                    /\ Len(v.e) = Len(a.params)
                    /\ \A i \in 1..Len(v.e) : Fits(v.e[i], a.params[i]))

\* what the stage yields of xs: nothing of an element of the wrong kind or
\* of one the Mapper fails on, the Mapper's result of any other
RECURSIVE ContainerMapped(_, _)
ContainerMapped(a, xs) ==
    IF xs = <<>> THEN <<>>
    ELSE (IF WrongKind(a, Head(xs)) \/ ContainerApply(a, Head(xs)).err # Nil
          THEN <<>> ELSE <<ContainerApply(a, Head(xs)).val>>)
         \o ContainerMapped(a, Tail(xs))

\* C33: a MaybeMap, EitherMap or TupleMap stage of a stream that receives
\* an element of the wrong container kind drops that element and goes on
\* with the next one: no error is surfaced and the remaining elements are
\* still processed in order.
C33_WrongKindDropped ==
    (Len(chain) = 1 /\ adapter.kind \in {"maybeMapper", "eitherMapper", "tupleMapper"}) =>
        LET ys == ContainerMapped(adapter, UpstreamVals(script))
        IN  \A j \in 1..Len(out) :
               IF j <= Len(ys) THEN out[j].err = Nil /\ out[j].val = ys[j]
               ELSE out[j].err = ErrEOI

\* a MaybeMap stage handed [1, Just(1), Nothing] dropped the 1 and yielded
\* Just(f(1)), Nothing, then EOI
C33_Witness ==
    /\ Len(chain) = 1
    /\ adapter.kind = "maybeMapper" /\ adapter.out = "ok"
    /\ script = <<Ok(IntV("1")), Ok(NewJust(IntV("1"))), Ok(NewNothing)>>
    /\ Len(out) = 3
    /\ out[1].val = NewJust(GoVal("int", "f", <<IntV("1")>>))
    /\ out[2].val = NewNothing
    /\ out[3].err = ErrEOI

\* the values the iterator's Next has returned to the producer so far, of a
\* source that ends
NextReturned == SubSeq(UpstreamVals(script), 1, Pulled)

\* xs is the start of ys
IsPrefix(xs, ys) == Len(xs) <= Len(ys) /\ xs = SubSeq(ys, 1, Len(xs))

\* C34: under every interleaving of the producer, the watcher and the
\* consumer, what the consumer has received from C() is a start of the
\* sequence of values Next returned (nothing twice, nothing out of order),
\* and once the watcher has taken a value off the channel the consumer
\* receives no further value.
C34_ReceivedPrefix ==
    /\ [](~endless => IsPrefix(received, NextReturned))
    /\ [](endless => EndlessPrefix(received, script))
    /\ [][drained > 0 => received' = received]_vars

\* after a cancellation the consumer holds the first value, the watcher took
\* the second, and the producer ended without pulling the third
C34_Witness ==
    /\ ~endless /\ ctxMode = "cancelled"
    /\ Len(UpstreamVals(script)) = 3
    /\ Len(received) = 1 /\ drained = 1
    /\ Pulled = 2
    /\ ppc = "done" /\ cpc = "done"

\* C35: under every interleaving, a cancellation racing with EOI or with an
\* error of the iteration included, the channel of C() is closed once and
\* by the producer: it becomes closed only in the producer's deferred
\* close(s.c), it never is closed when the producer is about to close it,
\* and once it is closed the producer has returned, so that it sends no more.
C35_ClosedOnce ==
    /\ [](cClosed => ppc = "done")
    /\ [][cClosed' # cClosed => (ppc = "close" /\ ppc' = "done" /\ cClosed')]_vars

\* the caller cancelled, the watcher set isClosed and the iterator failed in
\* the same run; the channel is closed and all three goroutines are through
C35_Witness ==
    /\ ctxMode = "cancelled" /\ isClosed
    /\ cerr = ErrUser
    /\ cClosed /\ ppc = "done" /\ wpc = "done" /\ cpc = "done"

\* the producer and the watcher take the steps they can take (every call of
\* Next returns); the consumer may stop receiving at any time
ProducerWatcherFairness ==
    /\ WF_vars(iterateGet) /\ WF_vars(iterateNext)
    /\ WF_vars(iterateCancel) /\ WF_vars(iterateClose)
    /\ WF_vars(watcherDone) /\ WF_vars(watcherSet) /\ WF_vars(watcherRange)

\* the materializer with a consumer that is not bound to go on receiving
SpecChannelAbandoned == ChannelInit /\ [][ChannelStep]_vars /\ ProducerWatcherFairness

\* C36: once the caller has cancelled the context, the producer eventually
\* returns and the channel is eventually closed, whether or not the consumer
\* receives again: the watcher takes the send that is pending.
C36_CancelTerminates ==
    (ctxMode = "cancelled") ~> (ppc = "done" /\ cClosed)

\* the consumer never received: after the cancellation the watcher took the
\* one value the producer was sending, and the producer closed the channel
C36_Witness ==
    /\ ctxMode = "cancelled"
    /\ received = <<>> /\ cpc = "range"
    /\ drained = 1
    /\ ppc = "done" /\ cClosed

\* C37: over a source that ends, with EOI or with an error that is not EOI,
\* and with a consumer that ranges over C(), the producer and the watcher
\* both eventually return, whether or not the caller ever cancels the
\* context: the producer's deferred cancel() wakes the watcher, which finds
\* the channel closed.
C37_GoroutinesEnd ==
    (~endless) ~> (ppc = "done" /\ wpc = "done")

\* the iterator failed after two values under a context that cannot be
\* cancelled, and both goroutines have returned
C37_Witness ==
    /\ ~endless /\ ctxMode = "background"
    /\ Len(received) = 2 /\ cerr = ErrUser
    /\ ppc = "done" /\ wpc = "done"

\* the elements the Aggregator was applied to, in the order of the
\* applications
AppliedTo == [i \in 1..Len(st.flog) |-> st.flog[i].x]

\* xs from its last element to its first
Reversed(xs) == [i \in 1..Len(xs) |-> xs[Len(xs) + 1 - i]]

\* C38: folding right an upstream x1..xn, the Aggregator is applied only
\* when the upstream has returned EOI, all n elements pulled, and then to
\* xn, ..., x1 in that order (as far as it does not fail); when the upstream
\* returns an error that is not EOI the Aggregator is never applied.
C38_FoldRightOrder ==
    (Len(chain) = 1 /\ FoldsRight(chain[1])) =>
        LET xs == UpstreamVals(script)
        IN  /\ UpstreamEnd(script) # ErrEOI => st.flog = <<>>
            /\ \A i \in 1..Len(st.flog) :
                  st.flog[i].eoi /\ st.flog[i].pulls = Len(xs) + 1
            /\ IsPrefix(AppliedTo, Reversed(xs))
            /\ (Len(out) >= 1 /\ NoErrors(chain[1])) => AppliedTo = Reversed(xs)

\* [1, 2, 2] was folded right: the Aggregator got 2, 2, 1, each after the
\* fourth call of the source had returned EOI
C38_Witness ==
    /\ Len(chain) = 1 /\ FoldsRight(chain[1])
    /\ script = <<Ok(<<"1">>), Ok(<<"2">>), Ok(<<"2">>)>>
    /\ Len(out) >= 1 /\ out[1].err = Nil
    /\ AppliedTo = <<<<"2">>, <<"2">>, <<"1">>>>
    /\ \A i \in 1..3 : st.flog[i].pulls = 4

-----------------------------------------------------------------------------
(* No look-ahead in the map and filter stages. *)

\* what becomes of the element v on its way through stages 1..k of the
\* chain: a map stage drops it when its Mapper fails, a filter stage drops
\* it when its Filter says false and fails on it when its Filter fails
RECURSIVE Through(_, _)
Through(k, v) ==
    IF k = 0 THEN Ok(v)
    ELSE LET u == Through(k - 1, v)
         IN  IF u.err # Nil THEN u
             ELSE IF chain[k].kind = "map"
             THEN LET a == MapperApply(chain[k].mapper, u.val)
                  IN  IF a.err # Nil THEN Fail(<<"dropped">>) ELSE Ok(a.val)
             ELSE LET a == FilterApply(chain[k].filter, u.val)
                  IN  IF a.err # Nil THEN Fail(<<"failed">>)
                      ELSE IF ~a.ok THEN Fail(<<"dropped">>)
                      ELSE Ok(u.val)

\* the element v comes out of the last stage
Yielded(v) == Through(Len(chain), v).err = Nil

\* C39: no look-ahead: when a Next on a chain of map and filter stages has
\* just yielded the k-th output, the source has been pulled exactly up to
\* the element that output was made of, the k-th of the elements that come
\* through; nothing beyond it has been pulled.
C39_NoLookAhead ==
    (conn.ok /\ Len(chain) >= 1 /\ Len(out) >= 1 /\ out[Len(out)].err = Nil) =>
        LET xs == UpstreamVals(script)
            g == st.gcalls
        IN  /\ g \in 1..Len(xs)
            /\ Yielded(xs[g])
            /\ out[Len(out)] = Through(Len(chain), xs[g])
            /\ Cardinality({j \in 1..g : Yielded(xs[j])}) = Len(out)

\* a filter stage that passes 2 only, over [1, 2, 2]: its first output, the
\* second element, was yielded with two elements pulled and the third not
C39_Witness ==
    /\ conn.ok /\ Len(chain) = 1 /\ chain[1].kind = "filter"
    /\ script = <<Ok(<<"1">>), Ok(<<"2">>), Ok(<<"2">>)>>
    /\ out = <<Ok(<<"2">>)>>
    /\ st.gcalls = 2

-----------------------------------------------------------------------------
(* The stream of a builder after an Execute that failed. *)

\* C40: a failed Execute of the builder leaves no partial pipeline behind:
\* when Execute fails because a stage of the builder is invalid, the stage
\* list of the builder's Stream is after the call what it was before it.
C40_FailedExecuteFrame ==
    [][(Len(runs') = Len(runs) + 1
          /\ runs'[Len(runs')].op = "Execute"
          /\ FirstInvalid # 0) => chain' = chain]_vars

====
